---- MODULE Spec2Model ----
(***************************************************************************)
(* A model of the chess rules engine of iptton/chess-junie: the Board      *)
(* (piece list and move application), the MoveValidator (per-piece         *)
(* geometry, attack analysis, and the check-safety simulation on a copy of *)
(* the piece list) and the Game state machine (turn order, history,        *)
(* status, and the asynchronous oracle path).                              *)
(*                                                                         *)
(* The piece collection is a sequence, in the order Board.resetBoard       *)
(* pushes the pieces: the validator's simulation works with indices into   *)
(* that list, so the order is part of the observable behaviour.            *)
(***************************************************************************)
EXTENDS Integers, Sequences, FiniteSets, TLC

\* ------------------------------------------------------------------------
\* Domain types (types.ts)
\* ------------------------------------------------------------------------
PAWN == "pawn"
KNIGHT == "knight"
BISHOP == "bishop"
ROOK == "rook"
QUEEN == "queen"
KING == "king"
NOTYPE == "none"

WHITE == "white"
BLACK == "black"

ACTIVE == "active"
CHECK == "check"
CHECKMATE == "checkmate"
STALEMATE == "stalemate"
DRAW == "draw"

HUMAN_VS_HUMAN == "human_vs_human"
HUMAN_VS_AI == "human_vs_ai"

BoardSize == 8

Pos(px, py) == [x |-> px, y |-> py]

Squares == {Pos(px, py) : px \in 0..(BoardSize - 1), py \in 0..(BoardSize - 1)}

Abs(n) == IF n < 0 THEN -n ELSE n

\* The single element of a one-element set (binds a value computed once).
The(S) == CHOOSE v \in S : TRUE

Opponent(color) == IF color = WHITE THEN BLACK ELSE WHITE

MkPiece(t, c, px, py) ==
  [type |-> t, color |-> c, position |-> Pos(px, py), hasMoved |-> FALSE]

\* ------------------------------------------------------------------------
\* Board (Board.ts)
\* ------------------------------------------------------------------------

\* The 16 pawns, pushed file by file, white then black.
PawnRow ==
  [i \in 1..16 |->
     IF i % 2 = 1 THEN MkPiece(PAWN, WHITE, (i - 1) \div 2, 1)
                  ELSE MkPiece(PAWN, BLACK, (i - 1) \div 2, 6)]

\* Board.resetBoard: the list the board holds after construction or reset.
resetBoard ==
  PawnRow \o
  << MkPiece(ROOK, WHITE, 0, 0), MkPiece(ROOK, WHITE, 7, 0),
     MkPiece(ROOK, BLACK, 0, 7), MkPiece(ROOK, BLACK, 7, 7),
     MkPiece(KNIGHT, WHITE, 1, 0), MkPiece(KNIGHT, WHITE, 6, 0),
     MkPiece(KNIGHT, BLACK, 1, 7), MkPiece(KNIGHT, BLACK, 6, 7),
     MkPiece(BISHOP, WHITE, 2, 0), MkPiece(BISHOP, WHITE, 5, 0),
     MkPiece(BISHOP, BLACK, 2, 7), MkPiece(BISHOP, BLACK, 5, 7),
     MkPiece(QUEEN, WHITE, 3, 0), MkPiece(QUEEN, BLACK, 3, 7),
     MkPiece(KING, WHITE, 4, 0), MkPiece(KING, BLACK, 4, 7) >>

\* Array.findIndex by coordinate, 1-based; 0 stands for "not found".
findIndex(ps, pos) ==
  IF \E i \in 1..Len(ps) : ps[i].position = pos
  THEN CHOOSE i \in 1..Len(ps) :
         /\ ps[i].position = pos
         /\ \A j \in 1..(i - 1) : ps[j].position # pos
  ELSE 0

NoPiece == [type |-> NOTYPE, color |-> "none", position |-> Pos(-9, -9), hasMoved |-> FALSE]

\* Board.getPieceAt: the first piece on the coordinate, NoPiece for undefined.
getPieceAt(ps, pos) ==
  LET i == findIndex(ps, pos) IN IF i = 0 THEN NoPiece ELSE ps[i]

Occupied(ps, pos) == \E i \in 1..Len(ps) : ps[i].position = pos

\* Board.removePiece: filters out every piece on the coordinate.
removePiece(ps, pos) == SelectSeq(ps, LAMBDA p : p.position # pos)

\* Board.updatePiecePosition: relocates the first piece found on `from`.
updatePiecePosition(ps, from, to) ==
  LET i == findIndex(ps, from) IN
  IF i = 0 THEN ps ELSE [ps EXCEPT ![i].position = to]

\* A movePiece without the en-passant branch.
IsEnPassantApplyNever(ps, from, to) == FALSE

\* Is the pawn move from->to of Board.movePiece an en-passant capture?
IsEnPassantApply(ps, from, to) ==
  /\ getPieceAt(ps, from).type = PAWN
  /\ Abs(from.x - to.x) = 1
  /\ Abs(from.y - to.y) = 1
  /\ ~Occupied(ps, to)
  /\ getPieceAt(ps, Pos(to.x, from.y)).type = PAWN

IsPromotionApply(ps, from, to) ==
  LET piece == getPieceAt(ps, from) IN
  /\ piece.type = PAWN
  /\ \/ (piece.color = WHITE /\ to.y = 7)
     \/ (piece.color = BLACK /\ to.y = 0)

IsCastlingApply(ps, from, to) ==
  /\ getPieceAt(ps, from).type = KING
  /\ Abs(from.x - to.x) = 2

\* The Move record Board.movePiece returns.
MoveRecord(ps, from, to) ==
  [from |-> from,
   to |-> to,
   capturedPiece |-> IF IsEnPassantApply(ps, from, to)
                     THEN getPieceAt(ps, Pos(to.x, from.y))
                     ELSE getPieceAt(ps, to),
   promotion |-> IF IsPromotionApply(ps, from, to) THEN QUEEN ELSE NOTYPE,
   isCastling |-> IsCastlingApply(ps, from, to),
   isEnPassant |-> IsEnPassantApply(ps, from, to)]

\* A movePiece that never sets the moved-flag.
MarkMovedNever(ps, from, to) == ps

\* Marks the piece object found on `from` before the move as moved, if it is
\* still held by the list (it then stands on `to`).
MarkMoved(ps, from, to) ==
  LET i == findIndex(ps, to) IN
  IF from = to \/ i = 0 THEN ps ELSE [ps EXCEPT ![i].hasMoved = TRUE]

\* A movePiece that relocates the mover and removes nothing.
movePieceKeepsCaptured(ps, from, to) ==
  MarkMoved(updatePiecePosition(ps, from, to), from, to)

\* A movePiece that leaves the castling rook on its corner.
movePieceLeavesRook(ps, from, to) ==
  LET ep == IsEnPassantApply(ps, from, to)
      afterEp == IF ep THEN removePiece(ps, Pos(to.x, from.y)) ELSE ps
      afterCapture ==
        IF Occupied(ps, to) /\ ~ep THEN removePiece(afterEp, to) ELSE afterEp
  IN MarkMoved(updatePiecePosition(afterCapture, from, to), from, to)

\* Board.movePiece, for a `from` that holds a piece: the resulting list.
movePiece(ps, from, to) ==
  LET ep == IsEnPassantApply(ps, from, to)
      afterEp == IF ep THEN removePiece(ps, Pos(to.x, from.y)) ELSE ps
      rookFromX == IF to.x > from.x THEN 7 ELSE 0
      rookToX == IF to.x > from.x THEN from.x + 1 ELSE from.x - 1
      rookPos == Pos(rookFromX, from.y)
      afterCastle ==
        IF /\ IsCastlingApply(ps, from, to)
           /\ getPieceAt(afterEp, rookPos).type = ROOK
        THEN updatePiecePosition(afterEp, rookPos, Pos(rookToX, from.y))
        ELSE afterEp
      afterCapture ==
        IF Occupied(ps, to) /\ ~ep THEN removePiece(afterCastle, to)
        ELSE afterCastle
      afterMove == updatePiecePosition(afterCapture, from, to)
  IN MarkMoved(afterMove, from, to)

\* ------------------------------------------------------------------------
\* MoveValidator: geometry (Board.ts, second part)
\* ------------------------------------------------------------------------

isWithinBoard(pos) ==
  pos.x >= 0 /\ pos.x < BoardSize /\ pos.y >= 0 /\ pos.y < BoardSize

Sign(n) == IF n = 0 THEN 0 ELSE IF n > 0 THEN 1 ELSE -1

Max(a, b) == IF a > b THEN a ELSE b

Min(a, b) == IF a < b THEN a ELSE b

\* The squares the loop of isStraightPathClear visits: it steps by the sign of
\* each difference and stops when both coordinates equal the target's.  Its
\* callers pass squares on one rank, file or diagonal.
StraightWalk(from, to) ==
  LET dx == to.x - from.x
      dy == to.y - from.y
      n == Max(Abs(dx), Abs(dy))
  IN {Pos(from.x + k * Sign(dx), from.y + k * Sign(dy)) : k \in 1..(n - 1)}

\* The squares the loop of isDiagonalPathClear visits: the step is +1 where the
\* difference is positive and -1 otherwise (also for a difference of 0), and
\* the loop stops as soon as either coordinate equals the target's.
DiagonalSteps(from, to) ==
  LET dx == to.x - from.x
      dy == to.y - from.y
  IN IF dx = 0 THEN Abs(dy)
     ELSE IF dy = 0 THEN Abs(dx)
     ELSE Min(Abs(dx), Abs(dy))

DiagonalWalk(from, to) ==
  LET stepX == IF to.x - from.x > 0 THEN 1 ELSE -1
      stepY == IF to.y - from.y > 0 THEN 1 ELSE -1
  IN {Pos(from.x + k * stepX, from.y + k * stepY) :
        k \in 1..(DiagonalSteps(from, to) - 1)}

\* isStraightPathClear / isStraightPathClearWithPieces: `ps` is the live board
\* for the former and the simulated list for the latter.
isStraightPathClear(ps, from, to) ==
  \A sq \in StraightWalk(from, to) : ~Occupied(ps, sq)

\* isDiagonalPathClear / isDiagonalPathClearWithPieces.
isDiagonalPathClear(ps, from, to) ==
  \A sq \in DiagonalWalk(from, to) : ~Occupied(ps, sq)

isValidKnightMove(from, to) ==
  LET dx == Abs(to.x - from.x)
      dy == Abs(to.y - from.y)
  IN (dx = 1 /\ dy = 2) \/ (dx = 2 /\ dy = 1)

isValidBishopMove(ps, from, to) ==
  /\ Abs(to.x - from.x) = Abs(to.y - from.y)
  /\ isDiagonalPathClear(ps, from, to)

isValidRookMove(ps, from, to) ==
  /\ (from.x = to.x \/ from.y = to.y)
  /\ isStraightPathClear(ps, from, to)

isValidQueenMove(ps, from, to) ==
  IF from.x = to.x \/ from.y = to.y
  THEN isStraightPathClear(ps, from, to)
  ELSE IF Abs(to.x - from.x) = Abs(to.y - from.y)
       THEN isDiagonalPathClear(ps, from, to)
       ELSE FALSE

canPawnAttackSquare(pawn, pos) ==
  LET direction == IF pawn.color = WHITE THEN 1 ELSE -1 IN
  /\ Abs(pos.x - pawn.position.x) = 1
  /\ pos.y - pawn.position.y = direction

\* canPieceAttackSquare: attack analysis on the live board.
canPieceAttackSquare(ps, piece, pos) ==
  CASE piece.type = PAWN -> canPawnAttackSquare(piece, pos)
    [] piece.type = KNIGHT -> isValidKnightMove(piece.position, pos)
    [] piece.type = BISHOP ->
         /\ isValidBishopMove(ps, piece.position, pos)
         /\ isDiagonalPathClear(ps, piece.position, pos)
    [] piece.type = ROOK ->
         /\ isValidRookMove(ps, piece.position, pos)
         /\ isStraightPathClear(ps, piece.position, pos)
    [] piece.type = QUEEN ->
         /\ isValidQueenMove(ps, piece.position, pos)
         /\ \/ isStraightPathClear(ps, piece.position, pos)
            \/ isDiagonalPathClear(ps, piece.position, pos)
    [] piece.type = KING ->
         /\ Abs(pos.x - piece.position.x) <= 1
         /\ Abs(pos.y - piece.position.y) <= 1
    [] OTHER -> FALSE

isSquareUnderAttack(ps, pos, defendingColor) ==
  \E i \in 1..Len(ps) :
    /\ ps[i].color = Opponent(defendingColor)
    /\ canPieceAttackSquare(ps, ps[i], pos)

\* Index of the first king of the colour in the list, 0 if there is none.
findKing(ps, kingColor) ==
  IF \E i \in 1..Len(ps) : ps[i].type = KING /\ ps[i].color = kingColor
  THEN CHOOSE i \in 1..Len(ps) :
         /\ ps[i].type = KING /\ ps[i].color = kingColor
         /\ \A j \in 1..(i - 1) : ~(ps[j].type = KING /\ ps[j].color = kingColor)
  ELSE 0

isInCheck(ps, kingColor) ==
  LET k == findKing(ps, kingColor) IN
  IF k = 0 THEN FALSE
  ELSE isSquareUnderAttack(ps, ps[k].position, kingColor)

\* A pawn rule whose en-passant branch asks only for an opposing pawn next to
\* the mover, whatever its rank and moved-flag.
isValidPawnMoveAnyRank(ps, pawn, to) ==
  LET from == pawn.position
      direction == IF pawn.color = WHITE THEN 1 ELSE -1
      startingRow == IF pawn.color = WHITE THEN 1 ELSE 6
      enPassantPiece == getPieceAt(ps, Pos(to.x, from.y))
  IN
  IF from.x = to.x /\ to.y = from.y + direction
  THEN ~Occupied(ps, to)
  ELSE IF from.x = to.x /\ from.y = startingRow /\ to.y = from.y + 2 * direction
  THEN ~Occupied(ps, Pos(from.x, from.y + direction)) /\ ~Occupied(ps, to)
  ELSE IF Abs(to.x - from.x) = 1 /\ to.y = from.y + direction
  THEN \/ (Occupied(ps, to) /\ getPieceAt(ps, to).color # pawn.color)
       \/ /\ enPassantPiece.type = PAWN
          /\ enPassantPiece.color # pawn.color
  ELSE FALSE

\* A pawn rule that allows the double step from any rank.
isValidPawnMoveFromAnyRow(ps, pawn, to) ==
  LET from == pawn.position
      direction == IF pawn.color = WHITE THEN 1 ELSE -1
      enPassantPiece == getPieceAt(ps, Pos(to.x, from.y))
      correctRank == IF enPassantPiece.color = WHITE THEN 3 ELSE 4
      startingRank == IF enPassantPiece.color = WHITE THEN 1 ELSE 6
  IN
  IF from.x = to.x /\ to.y = from.y + direction
  THEN ~Occupied(ps, to)
  ELSE IF from.x = to.x /\ to.y = from.y + 2 * direction
  THEN ~Occupied(ps, Pos(from.x, from.y + direction)) /\ ~Occupied(ps, to)
  ELSE IF Abs(to.x - from.x) = 1 /\ to.y = from.y + direction
  THEN \/ (Occupied(ps, to) /\ getPieceAt(ps, to).color # pawn.color)
       \/ /\ enPassantPiece.type = PAWN
          /\ enPassantPiece.color # pawn.color
          /\ enPassantPiece.position.y = correctRank
          /\ Abs(enPassantPiece.position.y - startingRank) = 2
          /\ enPassantPiece.hasMoved = TRUE
  ELSE FALSE

isValidPawnMove(ps, pawn, to) ==
  LET from == pawn.position
      direction == IF pawn.color = WHITE THEN 1 ELSE -1
      startingRow == IF pawn.color = WHITE THEN 1 ELSE 6
      enPassantPiece == getPieceAt(ps, Pos(to.x, from.y))
      correctRank == IF enPassantPiece.color = WHITE THEN 3 ELSE 4
      startingRank == IF enPassantPiece.color = WHITE THEN 1 ELSE 6
  IN
  IF from.x = to.x /\ to.y = from.y + direction
  THEN ~Occupied(ps, to)
  ELSE IF from.x = to.x /\ from.y = startingRow /\ to.y = from.y + 2 * direction
  THEN ~Occupied(ps, Pos(from.x, from.y + direction)) /\ ~Occupied(ps, to)
  ELSE IF Abs(to.x - from.x) = 1 /\ to.y = from.y + direction
  THEN \/ (Occupied(ps, to) /\ getPieceAt(ps, to).color # pawn.color)
       \/ /\ enPassantPiece.type = PAWN
          /\ enPassantPiece.color # pawn.color
          /\ enPassantPiece.position.y = correctRank
          /\ Abs(enPassantPiece.position.y - startingRank) = 2
          /\ enPassantPiece.hasMoved = TRUE
  ELSE FALSE

isValidKingMove(ps, king, to) ==
  LET from == king.position
      dx == Abs(to.x - from.x)
      dy == Abs(to.y - from.y)
      kingSideRook == getPieceAt(ps, Pos(7, from.y))
      queenSideRook == getPieceAt(ps, Pos(0, from.y))
  IN
  IF dx <= 1 /\ dy <= 1 THEN TRUE
  ELSE IF dy = 0 /\ dx = 2 /\ ~king.hasMoved
  THEN IF to.x > from.x
       THEN /\ kingSideRook.type = ROOK
            /\ ~kingSideRook.hasMoved
            /\ isStraightPathClear(ps, from, Pos(7 - 1, from.y))
            /\ ~isSquareUnderAttack(ps, Pos(from.x + 1, from.y), king.color)
            /\ ~isSquareUnderAttack(ps, Pos(from.x + 2, from.y), king.color)
       ELSE /\ queenSideRook.type = ROOK
            /\ ~queenSideRook.hasMoved
            /\ isStraightPathClear(ps, from, Pos(0 + 1, from.y))
            /\ ~isSquareUnderAttack(ps, Pos(from.x - 1, from.y), king.color)
            /\ ~isSquareUnderAttack(ps, Pos(from.x - 2, from.y), king.color)
  ELSE FALSE

isValidMoveForPiece(ps, piece, to) ==
  CASE piece.type = PAWN -> isValidPawnMove(ps, piece, to)
    [] piece.type = KNIGHT -> isValidKnightMove(piece.position, to)
    [] piece.type = BISHOP -> isValidBishopMove(ps, piece.position, to)
    [] piece.type = ROOK -> isValidRookMove(ps, piece.position, to)
    [] piece.type = QUEEN -> isValidQueenMove(ps, piece.position, to)
    [] piece.type = KING -> isValidKingMove(ps, piece, to)
    [] OTHER -> FALSE

\* ------------------------------------------------------------------------
\* MoveValidator: the check-safety simulation on a copy of the piece list
\* ------------------------------------------------------------------------

\* Array.splice(i, 1) on a 1-based sequence.
Splice(ps, i) == SubSeq(ps, 1, i - 1) \o SubSeq(ps, i + 1, Len(ps))

\* The copy after "remove the captured piece if there is one": the moving
\* piece's index is taken before the removal and used after it.
SimAfterCapture(ps, to) ==
  LET capturedPieceIndex == findIndex(ps, to) IN
  IF capturedPieceIndex # 0 THEN Splice(ps, capturedPieceIndex) ELSE ps

\* piecesCopy[movingPieceIndex].position = to throws a TypeError when the
\* index is past the end of the spliced copy.
SimThrows(ps, from, to) ==
  /\ findIndex(ps, from) # 0
  /\ findIndex(ps, from) > Len(SimAfterCapture(ps, to))

\* The simulated list the check-safety gate evaluates (when it does not throw).
SimPieces(ps, from, to) ==
  LET movingPieceIndex == findIndex(ps, from)
      copy == SimAfterCapture(ps, to)
  IN [copy EXCEPT ![movingPieceIndex].position = to]

\* canPieceAttackSquareWithPieces: the alignment tests (isValidBishopMove,
\* isValidRookMove, isValidQueenMove) read the live board `ps`, the
\* ...WithPieces path tests read the simulated list `sim`.
canPieceAttackSquareWithPieces(ps, sim, piece, pos) ==
  CASE piece.type = PAWN -> canPawnAttackSquare(piece, pos)
    [] piece.type = KNIGHT -> isValidKnightMove(piece.position, pos)
    [] piece.type = BISHOP ->
         /\ isValidBishopMove(ps, piece.position, pos)
         /\ isDiagonalPathClear(sim, piece.position, pos)
    [] piece.type = ROOK ->
         /\ isValidRookMove(ps, piece.position, pos)
         /\ isStraightPathClear(sim, piece.position, pos)
    [] piece.type = QUEEN ->
         /\ isValidQueenMove(ps, piece.position, pos)
         /\ \/ isStraightPathClear(sim, piece.position, pos)
            \/ isDiagonalPathClear(sim, piece.position, pos)
    [] piece.type = KING ->
         /\ Abs(pos.x - piece.position.x) <= 1
         /\ Abs(pos.y - piece.position.y) <= 1
    [] OTHER -> FALSE

\* Is the king of kingColor attacked in the simulated list?  (The loop shared
\* by wouldBeInCheck and wouldMoveResolveCheck.)
SimKingAttacked(ps, sim, kingColor) ==
  LET k == findKing(sim, kingColor) IN
  /\ k # 0
  /\ \E i \in 1..Len(sim) :
       /\ sim[i].color = Opponent(kingColor)
       /\ canPieceAttackSquareWithPieces(ps, sim, sim[i], sim[k].position)

\* wouldBeInCheck, when it returns.
wouldBeInCheck(ps, from, to, kingColor) ==
  IF findIndex(ps, from) = 0 THEN FALSE
  ELSE SimKingAttacked(ps, SimPieces(ps, from, to), kingColor)

\* wouldMoveResolveCheck, when it returns.
wouldMoveResolveCheck(ps, from, to, kingColor) ==
  IF findIndex(ps, from) = 0 THEN FALSE
  ELSE LET sim == SimPieces(ps, from, to) IN
       IF findKing(sim, kingColor) = 0 THEN FALSE
       ELSE ~SimKingAttacked(ps, sim, kingColor)

\* ------------------------------------------------------------------------
\* MoveValidator.ts: the validator with the single unconditional gate
\* ------------------------------------------------------------------------

\* Board.movePiece as a call: nothing happens when `from` holds no piece.
BoardMovePiece(ps, from, to) ==
  IF Occupied(ps, from) THEN movePiece(ps, from, to) ELSE ps

\* isValidPawnMove of MoveValidator.ts: the diagonal step onto an empty
\* square is accepted next to any opposing pawn.
isValidPawnMoveSingleGate(ps, pawn, to) ==
  LET from == pawn.position
      direction == IF pawn.color = WHITE THEN 1 ELSE -1
      startingRow == IF pawn.color = WHITE THEN 1 ELSE 6
      enPassantPiece == getPieceAt(ps, Pos(to.x, from.y))
  IN
  IF from.x = to.x /\ to.y = from.y + direction
  THEN ~Occupied(ps, to)
  ELSE IF from.x = to.x /\ from.y = startingRow /\ to.y = from.y + 2 * direction
  THEN ~Occupied(ps, Pos(from.x, from.y + direction)) /\ ~Occupied(ps, to)
  ELSE IF Abs(to.x - from.x) = 1 /\ to.y = from.y + direction
  THEN \/ (Occupied(ps, to) /\ getPieceAt(ps, to).color # pawn.color)
       \/ /\ enPassantPiece.type = PAWN
          /\ enPassantPiece.color # pawn.color
  ELSE FALSE

isValidMoveForPieceSingleGate(ps, piece, to) ==
  IF piece.type = PAWN THEN isValidPawnMoveSingleGate(ps, piece, to)
  ELSE isValidMoveForPiece(ps, piece, to)

\* The temporary board of wouldBeInCheck after the loop "for each piece of
\* the board: tempBoard.movePiece(piece.position, piece.position)", from
\* piece i on: `temp` starts as the standard arrangement of new Board().
RECURSIVE tempBoardAfterCopy(_, _, _)
tempBoardAfterCopy(temp, ps, i) ==
  IF i > Len(ps) THEN temp
  ELSE The({ tempBoardAfterCopy(next, ps, i + 1) :
             next \in {BoardMovePiece(temp, ps[i].position, ps[i].position)} })

\* wouldBeInCheck of MoveValidator.ts.
wouldBeInCheckSingleGate(ps, from, to, kingColor) ==
  The({ isInCheck(tempBoard, kingColor) :
        tempBoard \in {BoardMovePiece(tempBoardAfterCopy(resetBoard, ps, 1),
                                      from, to)} })

\* MoveValidator.isValidMove of MoveValidator.ts.
isValidMoveSingleGate(ps, from, to, color) ==
  IF ~isWithinBoard(from) \/ ~isWithinBoard(to) THEN "false"
  ELSE IF ~Occupied(ps, from) THEN "false"
  ELSE IF getPieceAt(ps, from).color # color THEN "false"
  ELSE IF Occupied(ps, to) /\ getPieceAt(ps, to).color = color THEN "false"
  ELSE IF ~isValidMoveForPieceSingleGate(ps, getPieceAt(ps, from), to) THEN "false"
  ELSE IF wouldBeInCheckSingleGate(ps, from, to, color) THEN "false"
  ELSE "true"

\* Steps 1-4 of isValidMove: range, ownership, destination, geometry.
PassesGeometry(ps, from, to, color) ==
  /\ isWithinBoard(from)
  /\ isWithinBoard(to)
  /\ Occupied(ps, from)
  /\ getPieceAt(ps, from).color = color
  /\ ~(Occupied(ps, to) /\ getPieceAt(ps, to).color = color)
  /\ isValidMoveForPiece(ps, getPieceAt(ps, from), to)

\* Step 5 of isValidMove, the check-aware gate, when it returns.
PassesGate(ps, from, to, color) ==
  IF isInCheck(ps, color)
  THEN wouldMoveResolveCheck(ps, from, to, color)
  ELSE ~wouldBeInCheck(ps, from, to, color)

\* MoveValidator.isValidMove: "true", "false", or "throw" when the call ends
\* in the TypeError of the simulation.
isValidMove(ps, from, to, color) ==
  IF ~PassesGeometry(ps, from, to, color) THEN "false"
  ELSE IF SimThrows(ps, from, to) THEN "throw"
  ELSE IF PassesGate(ps, from, to, color) THEN "true"
  ELSE "false"

\* The loops "for each piece of the colour, for x, for y" of isCheckmate,
\* updateGameStatus: they stop at the first destination isValidMove accepts
\* and end in the exception of the first call that throws.
\* Result of scanning the 64 destinations of the piece on `from`: the verdict
\* of the first destination, in the order of the loops, that is not "false".
ScanPiece(ps, from, color) ==
  The({ IF \E o \in 0..(BoardSize * BoardSize - 1) : verdicts[o] # "false"
        THEN verdicts[CHOOSE o \in 0..(BoardSize * BoardSize - 1) :
                        /\ verdicts[o] # "false"
                        /\ \A q \in 0..(o - 1) : verdicts[q] = "false"]
        ELSE "false" :
        verdicts \in
          { [o \in 0..(BoardSize * BoardSize - 1) |->
               isValidMove(ps, from, Pos(o \div BoardSize, o % BoardSize), color)] } })

RECURSIVE ScanFrom(_, _, _)
ScanFrom(ps, color, i) ==
  IF i > Len(ps) THEN "false"
  ELSE IF ps[i].color # color THEN ScanFrom(ps, color, i + 1)
  ELSE The({ IF r = "false" THEN ScanFrom(ps, color, i + 1) ELSE r :
             r \in {ScanPiece(ps, ps[i].position, color)} })

\* "true": some piece of the colour has a destination isValidMove accepts.
hasLegalMove(ps, color) == ScanFrom(ps, color, 1)

\* MoveValidator.isCheckmate
isCheckmate(ps, kingColor) ==
  IF ~isInCheck(ps, kingColor) THEN "false"
  ELSE The({ IF r = "true" THEN "false" ELSE IF r = "false" THEN "true" ELSE "throw" :
             r \in {hasLegalMove(ps, kingColor)} })

\* An updateGameStatus that calls a game without a legal move a draw.
updateGameStatusDrawWhenNoMove(ps, player) ==
  The({ IF r = "throw" THEN "throw"
        ELSE IF r = "false" THEN DRAW
        ELSE IF isInCheck(ps, player) THEN CHECK ELSE ACTIVE :
        r \in {hasLegalMove(ps, player)} })

\* An updateGameStatus without the branch for a side in check.
updateGameStatusIgnoresCheck(ps, player) ==
  The({ IF r = "throw" THEN "throw"
        ELSE IF r = "false" THEN STALEMATE ELSE ACTIVE :
        r \in {hasLegalMove(ps, player)} })

\* Game.updateGameStatus: the new status, or "throw".
updateGameStatus(ps, player) ==
  The({ IF r = "throw" THEN "throw"
        ELSE IF isInCheck(ps, player)
             THEN (IF r = "false" THEN CHECKMATE ELSE CHECK)
             ELSE (IF r = "false" THEN STALEMATE ELSE ACTIVE) :
        r \in {hasLegalMove(ps, player)} })

\* ------------------------------------------------------------------------
\* Inputs of the operations
\* ------------------------------------------------------------------------

\* Bound on the number of applied moves per game (length of the history).
MaxPlies == 11

M(fx, fy, tx, ty) == [from |-> Pos(fx, fy), to |-> Pos(tx, ty)]

\* Opening lines the callers' from/to pairs are drawn from; files a..h are
\* x = 0..7 and ranks 1..8 are y = 0..7.
\* 1.f3 e5 2.g4 Qh4
LineMate == << M(5,1,5,2), M(4,6,4,4), M(6,1,6,3), M(3,7,7,3) >>
\* 1.f3 e5 2.Kf2 Qh4+ 3.Ke1 Qxe1
LineRetreat ==
  << M(5,1,5,2), M(4,6,4,4), M(4,0,5,1), M(3,7,7,3), M(5,1,4,0), M(7,3,4,0) >>
\* 1.f3 e5 2.Kf2 Qh4+ 3.Kg3 (next to the queen), 3.g3 (interposes)
LineStay == << M(5,1,5,2), M(4,6,4,4), M(4,0,5,1), M(3,7,7,3), M(5,1,6,2) >>
LineBlock == << M(5,1,5,2), M(4,6,4,4), M(4,0,5,1), M(3,7,7,3), M(6,1,6,2) >>
\* 1.e4 e5 2.Qh5 Ke7 3.Qxf7+ Kxf7
LineKingTakes ==
  << M(4,1,4,3), M(4,6,4,4), M(3,0,7,4), M(4,7,4,6), M(7,4,5,6), M(4,6,5,6) >>
\* 1.e4 e5 2.Qh5 f6 (the pawn shields the king from the queen) 3.Qxe8
LinePinned == << M(4,1,4,3), M(4,6,4,4), M(3,0,7,4), M(5,6,5,5), M(7,4,4,7) >>
\* 1.e4 e5 2.Nf3 Nc6 3.Bc4 Bc5 4.O-O
LineCastle ==
  << M(4,1,4,3), M(4,6,4,4), M(6,0,5,2), M(1,7,2,5), M(5,0,2,3), M(5,7,2,4),
     M(4,0,6,0) >>
\* 1.e4 a6 2.e5 d5 3.exd6 (en passant)
LineEnPassant == << M(4,1,4,3), M(0,6,0,5), M(4,3,4,4), M(3,6,3,4), M(4,4,3,5) >>
\* 1.a4 b6 2.h3 b5 3.axb5
LineScenarioA == << M(0,1,0,3), M(1,6,1,5), M(7,1,7,2), M(1,5,1,4), M(0,3,1,4) >>
\* 1.d4 d5 2.Bf4 a6 3.Qd3 b6 4.O-O-O (the knight still stands on b1)
LineCastleLong ==
  << M(3,1,3,3), M(3,6,3,4), M(2,0,5,3), M(0,6,0,5), M(3,0,3,2), M(1,6,1,5),
     M(4,0,2,0) >>
\* 1.a3 e5 2.a4 Qh4 3.a5 Qxf2+ (the queen is unprotected) 4.Kxf2
LineQueenTakes ==
  << M(0,1,0,2), M(4,6,4,4), M(0,2,0,3), M(3,7,7,3), M(0,3,0,4), M(7,3,5,1),
     M(4,0,5,1) >>

Lines ==
  { LineMate, LineRetreat, LineStay, LineBlock, LineKingTakes, LinePinned,
    LineCastle, LineEnPassant, LineScenarioA, LineQueenTakes }

\* 1.e4 Nc6 2.Nf3 Nb4 3.Bc4 Nd3+ 4.O-O (out of the knight's check)
LineCastleCheck ==
  << M(4,1,4,3), M(1,7,2,5), M(6,0,5,2), M(2,5,1,3), M(5,0,2,3), M(1,3,3,2),
     M(4,0,6,0) >>
\* 1.e4 e5 2.Nf3 Nc6 3.Bc4 Bc5 4.Ke2 a6 5.Ke1 b6 6.O-O (the king has moved)
LineKingReturns ==
  << M(4,1,4,3), M(4,6,4,4), M(6,0,5,2), M(1,7,2,5), M(5,0,2,3), M(5,7,2,4),
     M(4,0,4,1), M(0,6,0,5), M(4,1,4,0), M(1,6,1,5), M(4,0,6,0) >>
\* 1.e4 e5 2.Nf3 Nc6 3.Bc4 Bc5 4.Rg1 a6 5.Rh1 b6 6.O-O (the rook has moved)
LineRookReturns ==
  << M(4,1,4,3), M(4,6,4,4), M(6,0,5,2), M(1,7,2,5), M(5,0,2,3), M(5,7,2,4),
     M(7,0,6,0), M(0,6,0,5), M(6,0,7,0), M(1,6,1,5), M(4,0,6,0) >>

\* The lines tried in the runs about castling.
LinesCastle ==
  { LineCastle, LineCastleLong, LineCastleCheck, LineKingReturns,
    LineRookReturns }

\* 1.e4 d6 2.e5 d5 3.exd6 (the pawn reached d5 by two single steps)
LineSingleSteps == << M(4,1,4,3), M(3,6,3,5), M(4,3,4,4), M(3,5,3,4), M(4,4,3,5) >>
\* 1.e4 d5 2.e5 a6 3.exd6 (the double step was made a move earlier)
LineStaleDoubleStep ==
  << M(4,1,4,3), M(3,6,3,4), M(4,3,4,4), M(0,6,0,5), M(4,4,3,5) >>

\* 1.a3 e5 2.a4 e4 3.d4 exd3 (en passant by black)
LineBlackEnPassant ==
  << M(0,1,0,2), M(4,6,4,4), M(0,2,0,3), M(4,4,4,3), M(3,1,3,3), M(4,3,3,2) >>
\* 1.d4 e5 2.a3 e4 3.a4 exd3 (black, two moves after the double step)
LineBlackStale ==
  << M(3,1,3,3), M(4,6,4,4), M(0,1,0,2), M(4,4,4,3), M(0,2,0,3), M(4,3,3,2) >>

\* The lines tried in the runs about en passant.
LinesEnPassant ==
  { LineEnPassant, LineSingleSteps, LineStaleDoubleStep, LineBlackEnPassant,
    LineBlackStale, LineScenarioA }

\* 1.h4 g5 2.hxg5 Nf6 3.g6 a6 4.g7 a5 5.g8 a4 6.(g8)-g6 (the piece on g8
\* moving as a queen)
LinePromotion ==
  << M(7,1,7,3), M(6,6,6,4), M(7,3,6,4), M(6,7,5,5), M(6,4,6,5), M(0,6,0,5),
     M(6,5,6,6), M(0,5,0,4), M(6,6,6,7), M(0,4,0,3), M(6,7,6,5) >>
\* 1.h4 g5 2.hxg5 Nf6 3.g6 a6 4.g7 a5 5.gxh8 a4 6.(h8)-h7
LinePromotionCapture ==
  << M(7,1,7,3), M(6,6,6,4), M(7,3,6,4), M(6,7,5,5), M(6,4,6,5), M(0,6,0,5),
     M(6,5,6,6), M(0,5,0,4), M(6,6,7,7), M(0,4,0,3), M(7,7,7,6) >>

\* 1.a3 h5 2.g4 hxg4 3.Nf3 g3 4.a4 g2 5.a5 g1 6.a6 (g1)-g3
LineBlackPromotion ==
  << M(0,1,0,2), M(7,6,7,4), M(6,1,6,3), M(7,4,6,3), M(6,0,5,2), M(6,3,6,2),
     M(0,2,0,3), M(6,2,6,1), M(0,3,0,4), M(6,1,6,0), M(0,4,0,5) >>
\* 1.a3 h5 2.g4 hxg4 3.Nf3 g3 4.a4 g2 5.a5 gxh1
LineBlackPromotionCapture ==
  << M(0,1,0,2), M(7,6,7,4), M(6,1,6,3), M(7,4,6,3), M(6,0,5,2), M(6,3,6,2),
     M(0,2,0,3), M(6,2,6,1), M(0,3,0,4), M(6,1,7,0) >>

\* The lines tried in the runs about promotion.
LinesPromotion ==
  { LinePromotion, LinePromotionCapture, LineBlackPromotion,
    LineBlackPromotionCapture, LineMate, LineScenarioA }

\* The lines tried in the runs with game modes and the oracle.
LinesAI == { LineMate, LineKingTakes, LinePinned }

\* The moves the lines hold at ply n.
MovesAt(ls, n) == {l[n] : l \in {k \in ls : Len(k) >= n}}

Book(n) == MovesAt(Lines, n)

\* Calls every position rejects: a coordinate out of range, an empty origin,
\* a destination holding a piece of the mover's colour, a knight moving two
\* squares along its file.
Probes ==
  { M(4,1,4,8), M(0,-1,0,0), M(3,3,3,4), M(0,0,1,0), M(7,7,6,7), M(1,0,1,2) }

\* The from/to pairs tried after h applied moves: the lines' next moves, the
\* moves of the ply after (pieces of the side not to move), and the probes.
Inputs(h) == Book(h + 1) \cup Book(h + 2) \cup Probes

InputsAI(h) == MovesAt(LinesAI, h + 1) \cup MovesAt(LinesAI, h + 2) \cup Probes

InputsPromotion(h) ==
  MovesAt(LinesPromotion, h + 1) \cup MovesAt(LinesPromotion, h + 2) \cup Probes

InputsEnPassant(h) ==
  MovesAt(LinesEnPassant, h + 1) \cup MovesAt(LinesEnPassant, h + 2) \cup Probes

InputsCastle(h) ==
  MovesAt(LinesCastle, h + 1) \cup MovesAt(LinesCastle, h + 2) \cup Probes

\* ------------------------------------------------------------------------
\* Game (Game.ts; the oracle path from the Game with game modes)
\* ------------------------------------------------------------------------
VARIABLES
  pieces,             \* Board.pieces
  currentPlayer,      \* Game.currentPlayer
  moveHistory,        \* Game.moveHistory
  status,             \* Game.status
  gameMode,           \* Game.gameMode
  aiColor,            \* Game.aiColor
  stockfishService,   \* Game.stockfishService is not null
  aiThinking,         \* Game.aiThinking
  pending,            \* makeAIMove calls suspended at "await getBestMove"
  lastOp,             \* the operation that ran last
  lastResult,         \* what it returned: "true", "false", "throw", "void"
  lastQuery,          \* the last getPossibleMoves call and its result
  isReady,            \* StockfishService.isReady
  moveResolve,        \* StockfishService.moveResolve: the call it settles, 0 for null
  moveReject,         \* StockfishService.moveReject: the call it settles, 0 for null
  worker,             \* the searches sent to the worker and not answered yet
  promises,           \* the promise each getBestMove call returned
  timers              \* the calls whose setTimeout is armed

gameVars ==
  << pieces, currentPlayer, moveHistory, status, gameMode, aiColor,
     stockfishService, aiThinking, pending, lastOp, lastResult, lastQuery >>

serviceVars == << isReady, moveResolve, moveReject, worker, promises, timers >>

vars ==
  << pieces, currentPlayer, moveHistory, status, gameMode, aiColor,
     stockfishService, aiThinking, pending, lastOp, lastResult, lastQuery,
     isReady, moveResolve, moveReject, worker, promises, timers >>

coreVars == << pieces, currentPlayer, moveHistory, status >>

aiVars == << gameMode, aiColor, stockfishService, aiThinking, pending >>

NoQuery == [position |-> Pos(-1, -1), moves |-> {}, threw |-> FALSE]

Playing(st) == st = ACTIVE \/ st = CHECK

\* An application of the move that leaves the side to move as it was.
applyMoveKeepsTurn(ps, player, history, st, from, to) ==
  [pieces |-> movePiece(ps, from, to),
   currentPlayer |-> player,
   moveHistory |-> Append(history, MoveRecord(ps, from, to)),
   status |-> st,
   result |-> "true"]

\* Game.makeMove from "this.board.movePiece" on, for a move the validator has
\* accepted: an exception of updateGameStatus leaves the status as it was.
applyMove(ps, player, history, st, from, to) ==
  The({ [pieces |-> np,
         currentPlayer |-> Opponent(player),
         moveHistory |-> Append(history, MoveRecord(ps, from, to)),
         status |-> IF ns = "throw" THEN st ELSE ns,
         result |-> IF ns = "throw" THEN "throw" ELSE "true"] :
        np \in {movePiece(ps, from, to)},
        ns \in {updateGameStatus(movePiece(ps, from, to), Opponent(player))} })

\* A makeMove that switches the side to move before it asks the validator.
makeMoveSwitchesFirst(ps, player, history, st, from, to) ==
  IF ~Playing(st)
  THEN [pieces |-> ps, currentPlayer |-> player, moveHistory |-> history,
        status |-> st, result |-> "false"]
  ELSE The({ IF verdict # "true"
             THEN [pieces |-> ps, currentPlayer |-> Opponent(player),
                   moveHistory |-> history, status |-> st, result |-> verdict]
             ELSE applyMove(ps, player, history, st, from, to) :
             verdict \in {isValidMove(ps, from, to, player)} })

\* Game.makeMove up to and including updateGameStatus: the state it leaves
\* and what the call does ("true", "false", or "throw" for an exception).
makeMove(ps, player, history, st, from, to) ==
  The({ IF ~Playing(st) \/ verdict # "true"
        THEN [pieces |-> ps, currentPlayer |-> player, moveHistory |-> history,
              status |-> st,
              result |-> IF ~Playing(st) THEN "false" ELSE verdict]
        ELSE applyMove(ps, player, history, st, from, to) :
        verdict \in {IF Playing(st) THEN isValidMove(ps, from, to, player)
                     ELSE "false"} })

\* A guard of makeAIMove that does not look at aiThinking.
makeAIMoveStartsWhileThinking(service, thinking, player, color, st) ==
  /\ service
  /\ player = color
  /\ Playing(st)

\* The guard of makeAIMove, evaluated on the state its caller has reached.
makeAIMoveStarts(service, thinking, player, color, st) ==
  /\ service
  /\ ~thinking
  /\ player = color
  /\ Playing(st)

\* Game.getPossibleMoves: the destinations pushed, and whether the call ends
\* in an exception of isValidMove instead of returning them.
getPossibleMoves(ps, player, pos) ==
  IF getPieceAt(ps, pos).type = NOTYPE \/ getPieceAt(ps, pos).color # player
  THEN [position |-> pos, moves |-> {}, threw |-> FALSE]
  ELSE The({ [position |-> pos,
              moves |-> {to \in Squares : verdicts[to] = "true"},
              threw |-> \E to \in Squares : verdicts[to] = "throw"] :
             verdicts \in
               { [to \in Squares |-> isValidMove(ps, pos, to, player)] } })

\* A simulation that works on a shallow copy of the list: the relocation
\* is written to the piece object the live list holds too.
liveAfterSimulationShared(ps, from, to) ==
  LET movingPieceIndex == findIndex(ps, from)
      capturedPieceIndex == findIndex(ps, to)
      written == IF capturedPieceIndex # 0 /\ capturedPieceIndex <= movingPieceIndex
                 THEN movingPieceIndex + 1 ELSE movingPieceIndex
  IN IF movingPieceIndex = 0 \/ written > Len(ps) THEN ps
     ELSE [ps EXCEPT ![written].position = to]

\* The live piece list after wouldBeInCheck / wouldMoveResolveCheck: the
\* copy holds fresh piece objects with fresh positions, so the splice and
\* the relocation act on the copy only.
liveAfterSimulation(ps, from, to) == ps

\* The live piece list after one isValidMove call: the simulation runs for
\* the moves that pass steps 1-4.
liveAfterIsValidMove(ps, from, to, color) ==
  IF ~SimThrows(ps, from, to) /\ PassesGeometry(ps, from, to, color)
  THEN liveAfterSimulation(ps, from, to)
  ELSE ps

\* The live piece list after the inner loop (y, y+1, ... of file x) over the
\* destinations of the piece on `from`; the loops end at a call that throws
\* and, in isCheckmate, at the first accepted destination.
RECURSIVE liveAfterFile(_, _, _, _, _, _)
liveAfterFile(ps, from, color, x, y, stopAtAccepted) ==
  IF y >= BoardSize THEN [live |-> ps, stopped |-> FALSE]
  ELSE LET to == Pos(x, y)
           stops == IF stopAtAccepted
                    THEN isValidMove(ps, from, to, color) # "false"
                    ELSE SimThrows(ps, from, to) /\ PassesGeometry(ps, from, to, color)
       IN The({ IF stops THEN [live |-> live, stopped |-> TRUE]
                ELSE liveAfterFile(live, from, color, x, y + 1, stopAtAccepted) :
                live \in {liveAfterIsValidMove(ps, from, to, color)} })

\* ... and after the outer loop (x, x+1, ...).
RECURSIVE liveAfterDestinations(_, _, _, _, _)
liveAfterDestinations(ps, from, color, x, stopAtAccepted) ==
  IF x >= BoardSize THEN [live |-> ps, stopped |-> FALSE]
  ELSE The({ IF r.stopped THEN r
             ELSE liveAfterDestinations(r.live, from, color, x + 1, stopAtAccepted) :
             r \in {liveAfterFile(ps, from, color, x, 0, stopAtAccepted)} })

\* The live piece list after Game.getPossibleMoves.
liveAfterGetPossibleMoves(ps, player, pos) ==
  IF getPieceAt(ps, pos).type = NOTYPE \/ getPieceAt(ps, pos).color # player
  THEN ps
  ELSE liveAfterDestinations(ps, pos, player, 0, FALSE).live

\* The live piece list after MoveValidator.isCheckmate, from piece i on.
RECURSIVE liveAfterIsCheckmate(_, _, _)
liveAfterIsCheckmate(ps, kingColor, i) ==
  IF i > Len(ps) THEN ps
  ELSE IF ps[i].color # kingColor THEN liveAfterIsCheckmate(ps, kingColor, i + 1)
  ELSE The({ IF r.stopped THEN r.live
             ELSE liveAfterIsCheckmate(r.live, kingColor, i + 1) :
             r \in {liveAfterDestinations(ps, ps[i].position, kingColor, 0, TRUE)} })

\* The getBestMove calls a run makes.
MaxRequests == 3

Requests == 1..MaxRequests

\* A promise: its state, the search whose answer it was resolved with, and
\* the call whose timer rejected it (0 where that does not apply).
NoPromise == [state |-> "none", answerTo |-> 0, timerOf |-> 0]

\* new StockfishService(): the worker is created, "uci" and "isready" are
\* posted; isReady is false and both callbacks are null.
InitService ==
  /\ isReady = FALSE
  /\ moveResolve = 0
  /\ moveReject = 0
  /\ worker = << >>
  /\ promises = [k \in Requests |-> NoPromise]
  /\ timers = {}

\* Construction: new Game() / new Game(mode, color).
InitCore ==
  /\ InitService
  /\ pieces = resetBoard
  /\ currentPlayer = WHITE
  /\ moveHistory = << >>
  /\ status = ACTIVE
  /\ lastOp = "constructor"
  /\ lastResult = "void"
  /\ lastQuery = NoQuery

Init ==
  /\ InitCore
  /\ gameMode = HUMAN_VS_HUMAN
  /\ aiColor = BLACK
  /\ stockfishService = FALSE
  /\ aiThinking = FALSE
  /\ pending = << >>

\* A makeMove call by the user interface or a test driver.
MakeMove(from, to) ==
  /\ Len(moveHistory) < MaxPlies
  /\ \E r \in {makeMove(pieces, currentPlayer, moveHistory, status, from, to)} :
       LET starts ==
             /\ r.result = "true"
             /\ gameMode = HUMAN_VS_AI
             /\ r.currentPlayer = aiColor
             /\ Playing(r.status)
             /\ makeAIMoveStarts(stockfishService, aiThinking, r.currentPlayer,
                                 aiColor, r.status)
       IN
       /\ pieces' = r.pieces
       /\ currentPlayer' = r.currentPlayer
       /\ moveHistory' = r.moveHistory
       /\ status' = r.status
       /\ aiThinking' = (aiThinking \/ starts)
       /\ pending' = IF starts THEN Append(pending, [disposed |-> FALSE]) ELSE pending
       /\ UNCHANGED serviceVars
       /\ lastOp' = "makeMove"
       /\ lastResult' = r.result
       /\ lastQuery' = NoQuery
       /\ UNCHANGED << gameMode, aiColor, stockfishService >>

\* A resetGame that keeps the move history.
ResetGameKeepsHistory ==
  /\ pieces' = resetBoard
  /\ currentPlayer' = WHITE
  /\ status' = ACTIVE
  /\ UNCHANGED serviceVars
  /\ lastOp' = "resetGame"
  /\ lastResult' = "void"
  /\ lastQuery' = NoQuery
  /\ UNCHANGED << moveHistory, gameMode, aiColor, stockfishService, aiThinking,
                  pending >>

\* Game.resetGame
ResetGame ==
  LET starts ==
        /\ gameMode = HUMAN_VS_AI
        /\ aiColor = WHITE
        /\ makeAIMoveStarts(stockfishService, aiThinking, WHITE, aiColor, ACTIVE)
  IN
  /\ pieces' = resetBoard
  /\ currentPlayer' = WHITE
  /\ moveHistory' = << >>
  /\ status' = ACTIVE
  /\ aiThinking' = (aiThinking \/ starts)
  /\ pending' = IF starts THEN Append(pending, [disposed |-> FALSE]) ELSE pending
  /\ UNCHANGED serviceVars
  /\ lastOp' = "resetGame"
  /\ lastResult' = "void"
  /\ lastQuery' = NoQuery
  /\ UNCHANGED << gameMode, aiColor, stockfishService >>

\* A getPossibleMoves that tries the moves on the board itself and leaves the
\* last one it accepted in place.
GetPossibleMovesOnLive(pos) ==
  /\ \E q \in {getPossibleMoves(pieces, currentPlayer, pos)} :
       /\ lastQuery' = q
       /\ lastResult' = IF q.threw THEN "throw" ELSE "void"
       /\ pieces' = IF q.moves = {} THEN pieces
                    ELSE movePiece(pieces, pos, CHOOSE to \in q.moves : TRUE)
  /\ UNCHANGED serviceVars
  /\ lastOp' = "getPossibleMoves"
  /\ UNCHANGED << currentPlayer, moveHistory, status >>
  /\ UNCHANGED aiVars

\* A getPossibleMoves call.
GetPossibleMoves(pos) ==
  /\ lastQuery' = getPossibleMoves(pieces, currentPlayer, pos)
  /\ UNCHANGED serviceVars
  /\ lastOp' = "getPossibleMoves"
  /\ lastResult' = IF lastQuery'.threw THEN "throw" ELSE "void"
  /\ pieces' = liveAfterGetPossibleMoves(pieces, currentPlayer, pos)
  /\ UNCHANGED << currentPlayer, moveHistory, status >>
  /\ UNCHANGED aiVars

\* A MoveValidator.isCheckmate call by a caller that holds the validator
\* (Game.updateGameStatus asks about the side to move).
IsCheckmate(kingColor) ==
  /\ UNCHANGED serviceVars
  /\ lastOp' = "isCheckmate"
  /\ lastResult' = isCheckmate(pieces, kingColor)
  /\ lastQuery' = NoQuery
  /\ pieces' = IF isInCheck(pieces, kingColor)
               THEN liveAfterIsCheckmate(pieces, kingColor, 1)
               ELSE pieces
  /\ UNCHANGED << currentPlayer, moveHistory, status >>
  /\ UNCHANGED aiVars

\* The lines whose pieces getPossibleMoves is asked about.
LinesQuery == { LineMate, LineKingTakes, LineQueenTakes }

\* The coordinates getPossibleMoves is asked about after h applied moves.
QuerySquares(h) == {m.from : m \in MovesAt(LinesQuery, h + 1)}

\* Game.setGameMode
SetGameMode(mode, color) ==
  LET service ==
        IF mode = HUMAN_VS_AI /\ gameMode # HUMAN_VS_AI THEN TRUE
        ELSE IF mode # HUMAN_VS_AI /\ gameMode = HUMAN_VS_AI THEN FALSE
        ELSE stockfishService
      disposes == mode # HUMAN_VS_AI /\ gameMode = HUMAN_VS_AI /\ stockfishService
      starts ==
        /\ mode = HUMAN_VS_AI
        /\ makeAIMoveStarts(service, aiThinking, currentPlayer, color, status)
      kept == IF disposes THEN [i \in 1..Len(pending) |-> [disposed |-> TRUE]]
              ELSE pending
  IN
  /\ gameMode' = mode
  /\ aiColor' = color
  /\ stockfishService' = service
  /\ aiThinking' = (aiThinking \/ starts)
  /\ pending' = IF starts THEN Append(kept, [disposed |-> FALSE]) ELSE kept
  /\ UNCHANGED serviceVars
  /\ lastOp' = "setGameMode"
  /\ lastResult' = "void"
  /\ lastQuery' = NoQuery
  /\ UNCHANGED coreVars

\* A makeAIMove that applies the oracle's move without asking makeMove.
OracleResolveTrusted(from, to) ==
  /\ pending # << >>
  /\ ~Head(pending).disposed
  /\ Len(moveHistory) < MaxPlies
  /\ Occupied(pieces, from)
  /\ isWithinBoard(to)
  /\ \E r \in {applyMove(pieces, currentPlayer, moveHistory, status, from, to)} :
       /\ pieces' = r.pieces
       /\ currentPlayer' = r.currentPlayer
       /\ moveHistory' = r.moveHistory
       /\ status' = r.status
       /\ aiThinking' = FALSE
       /\ pending' = Tail(pending)
       /\ UNCHANGED serviceVars
       /\ lastOp' = "makeAIMove"
       /\ lastResult' = IF r.result = "true" THEN "true" ELSE "false"
       /\ lastQuery' = NoQuery
       /\ UNCHANGED << gameMode, aiColor, stockfishService >>

\* The oracle answers the oldest suspended makeAIMove with a move: the rest of
\* makeAIMove runs (makeMove, then "finally").  A makeMove that throws is
\* caught and makeAIMove reports false.
OracleResolve(from, to) ==
  /\ pending # << >>
  /\ ~Head(pending).disposed
  /\ Len(moveHistory) < MaxPlies
  /\ \E r \in {makeMove(pieces, currentPlayer, moveHistory, status, from, to)} :
       /\ pieces' = r.pieces
       /\ currentPlayer' = r.currentPlayer
       /\ moveHistory' = r.moveHistory
       /\ status' = r.status
       /\ aiThinking' = FALSE
       /\ pending' = Tail(pending)
       /\ UNCHANGED serviceVars
       /\ lastOp' = "makeAIMove"
       /\ lastResult' = IF r.result = "true" THEN "true" ELSE "false"
       /\ lastQuery' = NoQuery
       /\ UNCHANGED << gameMode, aiColor, stockfishService >>

\* The request fails (engine not ready, engine error, timeout): "catch" and
\* "finally" of makeAIMove.
OracleFail ==
  /\ pending # << >>
  /\ aiThinking' = FALSE
  /\ pending' = Tail(pending)
  /\ UNCHANGED serviceVars
  /\ lastOp' = "makeAIMove"
  /\ lastResult' = "false"
  /\ lastQuery' = NoQuery
  /\ UNCHANGED coreVars
  /\ UNCHANGED << gameMode, aiColor, stockfishService >>

\* new Game(mode, color): in AI mode with the AI playing white the constructor
\* calls makeAIMove.
InitAI ==
  /\ InitCore
  /\ gameMode \in {HUMAN_VS_HUMAN, HUMAN_VS_AI}
  /\ aiColor \in {WHITE, BLACK}
  /\ stockfishService = (gameMode = HUMAN_VS_AI)
  /\ aiThinking = (gameMode = HUMAN_VS_AI /\ aiColor = WHITE)
  /\ pending = IF gameMode = HUMAN_VS_AI /\ aiColor = WHITE
               THEN << [disposed |-> FALSE] >> ELSE << >>

\* The game without the oracle: moves and resets.
Next ==
  \/ \E m \in Inputs(Len(moveHistory)) : MakeMove(m.from, m.to)
  \/ ResetGame

Spec == Init /\ [][Next]_vars

\* ... with the legality query.
NextQuery ==
  \/ \E m \in Inputs(Len(moveHistory)) : MakeMove(m.from, m.to)
  \/ ResetGame
  \/ \E pos \in QuerySquares(Len(moveHistory)) : GetPossibleMoves(pos)
  \/ IsCheckmate(currentPlayer)

SpecQuery == Init /\ [][NextQuery]_vars

\* ... with game modes and the oracle.
NextAI ==
  \/ \E m \in InputsAI(Len(moveHistory)) : MakeMove(m.from, m.to)
  \/ ResetGame
  \/ \E mode \in {HUMAN_VS_HUMAN, HUMAN_VS_AI}, color \in {WHITE, BLACK} :
       SetGameMode(mode, color)
  \/ \E m \in InputsAI(Len(moveHistory)) : OracleResolve(m.from, m.to)
  \/ OracleFail

SpecAI == InitAI /\ [][NextAI]_vars

\* The promise of getBestMove settles: the engine's "bestmove" line resolves
\* it, an engine error or the 10-second timer rejects it.  All three go
\* through moveResolve / moveReject, which dispose() clears, so they are
\* certain to happen only for a request whose service has not been disposed.
RequestSettles ==
  /\ pending # << >>
  /\ ~Head(pending).disposed
  /\ \/ OracleFail
     \/ \E m \in InputsAI(Len(moveHistory)) : OracleResolve(m.from, m.to)

\* ... with game modes and the oracle, where the timer of a request in flight
\* always fires in the end.
SpecAIFair == InitAI /\ [][NextAI]_vars /\ WF_vars(RequestSettles)

\* The game without the oracle, on the lines about castling.
NextCastle ==
  \/ \E m \in InputsCastle(Len(moveHistory)) : MakeMove(m.from, m.to)
  \/ ResetGame

SpecCastle == Init /\ [][NextCastle]_vars

\* The game without the oracle, on the lines about en passant.
NextEnPassant ==
  \/ \E m \in InputsEnPassant(Len(moveHistory)) : MakeMove(m.from, m.to)
  \/ ResetGame

SpecEnPassant == Init /\ [][NextEnPassant]_vars

\* ------------------------------------------------------------------------
\* Properties
\* ------------------------------------------------------------------------

\* The game without the oracle, on the lines about promotion.
NextPromotion ==
  \/ \E m \in InputsPromotion(Len(moveHistory)) : MakeMove(m.from, m.to)
  \/ ResetGame

SpecPromotion == Init /\ [][NextPromotion]_vars

Last(seq) == seq[Len(seq)]

\* A makeMove call (by a caller or by makeAIMove) has just returned true.
MoveAccepted == lastOp \in {"makeMove", "makeAIMove"} /\ lastResult = "true"

\* C1: after every makeMove that returned true, the king of the side that
\* just moved is not attacked on the resulting board.
C1_MoverKingNotAttacked ==
  MoveAccepted => ~isInCheck(pieces, Opponent(currentPlayer))

\* C2: no two pieces of the board stand on the same coordinate.
C2_UniqueCoordinates ==
  \A i \in 1..Len(pieces) : \A j \in 1..Len(pieces) :
    i # j => pieces[i].position # pieces[j].position

\* C2 witness: a castling move has relocated the rook and earlier moves have
\* captured.
C2_Witness ==
  /\ moveHistory # << >>
  /\ Last(moveHistory).isCastling
  /\ pieces # resetBoard

\* The moves of the last step: the history grew by one record.
Applied == Len(moveHistory') = Len(moveHistory) + 1

\* C3: every makeMove that returns true, called directly or by makeAIMove,
\* appends one move and hands the turn to the other colour, and the n-th
\* applied move is made by a white piece iff n is odd.
C3_TurnsAlternate ==
  [][ /\ (lastOp' \in {"makeMove", "makeAIMove"} /\ lastResult' = "true")
         => Applied
      /\ Applied =>
           /\ currentPlayer' = Opponent(currentPlayer)
           /\ currentPlayer = (IF Len(moveHistory') % 2 = 1 THEN WHITE ELSE BLACK)
           /\ getPieceAt(pieces, Last(moveHistory').from).color = currentPlayer
    ]_vars

\* C3 witness: a move has been applied through makeAIMove.
C3_Witness ==
  /\ lastOp = "makeAIMove"
  /\ lastResult = "true"
  /\ Len(moveHistory) >= 2

\* The legality of the claims: range, ownership, destination and geometry as
\* the validator tests them, and the mover's king not attacked on the board
\* Board.movePiece produces.
LegalByApplication(ps, from, to, mover) ==
  /\ PassesGeometry(ps, from, to, mover)
  /\ ~isInCheck(movePiece(ps, from, to), mover)

\* The side has a legal move.
SideHasMove(ps, color) ==
  \E i \in 1..Len(ps) :
    /\ ps[i].color = color
    /\ \E to \in Squares : LegalByApplication(ps, ps[i].position, to, color)

\* The transition function of the status.
ExpectedStatus(ps, color) ==
  IF isInCheck(ps, color)
  THEN (IF SideHasMove(ps, color) THEN CHECK ELSE CHECKMATE)
  ELSE (IF SideHasMove(ps, color) THEN ACTIVE ELSE STALEMATE)

\* C4: after a makeMove that returned true the status is the transition
\* function's value for the new board and the new side to move.
C4_StatusIsTransitionFunction ==
  (lastOp = "makeMove" /\ lastResult = "true")
    => status = ExpectedStatus(pieces, currentPlayer)

\* C5: a makeMove call that returns false leaves board, side to move, history
\* and status as they were.
C5_RejectedMoveMutatesNothing ==
  [][ (lastOp' = "makeMove" /\ lastResult' = "false") => UNCHANGED coreVars ]_vars

\* C5 witness: the validator has rejected a move in a game under way.
C5_Witness ==
  /\ lastOp = "makeMove"
  /\ lastResult = "false"
  /\ Playing(status)
  /\ Len(moveHistory) >= 4

\* C6: in a terminal status every makeMove, from a caller or from the oracle
\* path, returns false and leaves board, side to move, history and status.
C6_TerminalAbsorbing ==
  [][ (~Playing(status) /\ lastOp' \in {"makeMove", "makeAIMove"})
        => (lastResult' = "false" /\ UNCHANGED coreVars) ]_vars

\* C6 witness: the oracle's answer arrived in a checkmate and was refused.
C6_Witness ==
  /\ status = CHECKMATE
  /\ lastOp = "makeAIMove"
  /\ lastResult = "false"

\* C7: isValidMove returns true exactly for the moves that are legal by
\* application of the move.
C7_ValidIffLegal ==
  \A i \in 1..Len(pieces) : \A to \in Squares :
    (isValidMove(pieces, pieces[i].position, to, pieces[i].color) = "true")
      <=> LegalByApplication(pieces, pieces[i].position, to, pieces[i].color)

\* C8: no operation ends in an exception.
C8_NoException == lastResult # "throw"

\* The standard starting arrangement, square by square.
BackRank(px) ==
  CASE px \in {0, 7} -> ROOK
    [] px \in {1, 6} -> KNIGHT
    [] px \in {2, 5} -> BISHOP
    [] px = 3 -> QUEEN
    [] px = 4 -> KING

StandardArrangement ==
  {[type |-> (IF py \in {1, 6} THEN PAWN ELSE BackRank(px)),
    color |-> (IF py <= 1 THEN WHITE ELSE BLACK),
    position |-> Pos(px, py),
    hasMoved |-> FALSE] : px \in 0..7, py \in {0, 1, 6, 7}}

\* C9: resetGame leaves the 32 pieces of the starting arrangement with no
\* moved-flag, white to move, an empty history and status active.
C9_ResetRestoresStart ==
  [][ lastOp' = "resetGame" =>
        /\ Len(pieces') = 32
        /\ {pieces'[i] : i \in 1..Len(pieces')} = StandardArrangement
        /\ currentPlayer' = WHITE
        /\ moveHistory' = << >>
        /\ status' = ACTIVE ]_vars

\* C9 witness: a reset has run.
C9_Witness == lastOp = "resetGame" /\ pieces = resetBoard /\ moveHistory = << >>

C11_PossibleMovesAreAcceptedMoves ==
  Playing(status) =>
    \A c \in Squares :
      \A q \in {getPossibleMoves(pieces, currentPlayer, c)} :
        /\ ~q.threw
        /\ q.moves =
             {t \in Squares : isValidMove(pieces, c, t, currentPlayer) = "true"}
        /\ getPieceAt(pieces, c).color # currentPlayer => q.moves = {}
        /\ \A t \in q.moves :
             makeMove(pieces, currentPlayer, moveHistory, status, c, t).result
               = "true"
        /\ \A t \in Squares \ q.moves :
             isValidMove(pieces, c, t, currentPlayer) # "true"

C13_BothKingsPresent ==
  \A color \in {WHITE, BLACK} :
    Cardinality({i \in 1..Len(pieces) :
                   pieces[i].type = KING /\ pieces[i].color = color}) = 1

\* C14: the status is active, check, checkmate or stalemate, never draw.
C14_NeverDraw == status \in {ACTIVE, CHECK, CHECKMATE, STALEMATE}

\* C14 witness: updateGameStatus has ended a game with game modes.
C14_Witness ==
  /\ gameMode = HUMAN_VS_AI
  /\ lastOp \in {"makeMove", "makeAIMove"}
  /\ lastResult = "true"
  /\ status = CHECKMATE

\* The step applies a king move of two files along its rank.
KingTwoFilesApplied ==
  /\ Applied
  /\ lastResult' = "true"
  /\ getPieceAt(pieces, Last(moveHistory').from).type = KING
  /\ Abs(Last(moveHistory').to.x - Last(moveHistory').from.x) = 2
  /\ Last(moveHistory').to.y = Last(moveHistory').from.y

\* C15: a makeMove that accepts a king move of two files relocates, in the
\* same call, the mover's corner rook to the square the king passed over,
\* appends one record flagged as castling and flips the side to move once.
C15_CastlingAtomic ==
  [][ KingTwoFilesApplied =>
        LET move == Last(moveHistory')
            kingside == move.to.x > move.from.x
            corner == Pos(IF kingside THEN 7 ELSE 0, move.from.y)
            passed == Pos(IF kingside THEN 5 ELSE 3, move.from.y)
        IN /\ move.isCastling
           /\ getPieceAt(pieces, corner).type = ROOK
           /\ getPieceAt(pieces, corner).color = currentPlayer
           /\ ~Occupied(pieces', corner)
           /\ getPieceAt(pieces', passed).type = ROOK
           /\ getPieceAt(pieces', passed).color = currentPlayer
           /\ getPieceAt(pieces', move.to).type = KING
           /\ getPieceAt(pieces', move.to).color = currentPlayer
           /\ ~Occupied(pieces', move.from)
           /\ Len(pieces') = Len(pieces) - (IF Occupied(pieces, move.to) THEN 1 ELSE 0)
           /\ Len(moveHistory') = Len(moveHistory) + 1
           /\ currentPlayer' = Opponent(currentPlayer) ]_vars

\* C15 witness: queenside castling has been applied; the rook stands on d1.
C15_Witness ==
  /\ lastOp = "makeMove"
  /\ lastResult = "true"
  /\ Last(moveHistory).isCastling
  /\ Last(moveHistory).to = Pos(2, 0)
  /\ getPieceAt(pieces, Pos(3, 0)).type = ROOK
  /\ getPieceAt(pieces, Pos(2, 0)).type = KING

\* The king moves of two files along the rank the kings on the board have.
CastlingAttempts ==
  { [king |-> pieces[i], to |-> Pos(pieces[i].position.x + d, pieces[i].position.y)] :
      i \in {k \in 1..Len(pieces) : pieces[k].type = KING}, d \in {-2, 2} }

CastlingAccepted(a) ==
  isValidMove(pieces, a.king.position, a.to, a.king.color) = "true"

\* C16: a king move of two files is rejected while the king's square is
\* attacked, and when the square it passes or its destination is attacked.
C16_NoCastlingOutOfOrThroughCheck ==
  \A a \in CastlingAttempts :
    LET from == a.king.position
        passed == Pos((from.x + a.to.x) \div 2, from.y)
    IN ( \/ isInCheck(pieces, a.king.color)
         \/ isSquareUnderAttack(pieces, passed, a.king.color)
         \/ isSquareUnderAttack(pieces, a.to, a.king.color) )
       => ~CastlingAccepted(a)

\* C17: a king move of two files is accepted only if every square strictly
\* between the king and the corner rook of that side is empty.
C17_CastlingNeedsClearPath ==
  \A a \in CastlingAttempts :
    CastlingAccepted(a) =>
      LET from == a.king.position
          between == IF a.to.x > from.x THEN (from.x + 1)..6 ELSE 1..(from.x - 1)
      IN \A px \in between : ~Occupied(pieces, Pos(px, from.y))

\* A record of the history has moved a piece from or onto the square.
Touched(sq) ==
  \E k \in 1..Len(moveHistory) :
    moveHistory[k].from = sq \/ moveHistory[k].to = sq

\* C18: a king move of two files is accepted only for a king on its home
\* square and a corner rook that no move since the last reset has relocated
\* (no record leaves or reaches the king's home square or the rook's corner).
C18_CastlingRightsLost ==
  \A a \in CastlingAttempts :
    CastlingAccepted(a) =>
      LET home == Pos(4, IF a.king.color = WHITE THEN 0 ELSE 7)
          corner == Pos(IF a.to.x > home.x THEN 7 ELSE 0, home.y)
      IN /\ a.king.position = home
         /\ ~Touched(home)
         /\ ~Touched(corner)

\* C18 witness: the white king has moved and is back on e1 next to an unmoved
\* rook on h1, f1 and g1 are empty, no square of the way is attacked, and
\* kingside castling is rejected.
C18_Witness ==
  /\ getPieceAt(pieces, Pos(4, 0)).type = KING
  /\ getPieceAt(pieces, Pos(4, 0)).hasMoved
  /\ getPieceAt(pieces, Pos(7, 0)).type = ROOK
  /\ ~getPieceAt(pieces, Pos(7, 0)).hasMoved
  /\ ~Occupied(pieces, Pos(5, 0))
  /\ ~Occupied(pieces, Pos(6, 0))
  /\ ~isInCheck(pieces, WHITE)
  /\ currentPlayer = WHITE
  /\ isValidMove(pieces, Pos(4, 0), Pos(6, 0), WHITE) = "false"

\* The step applies a pawn's diagonal step onto an empty square.
PawnDiagonalToEmptyApplied ==
  /\ Applied
  /\ getPieceAt(pieces, Last(moveHistory').from).type = PAWN
  /\ Abs(Last(moveHistory').to.x - Last(moveHistory').from.x) = 1
  /\ Abs(Last(moveHistory').to.y - Last(moveHistory').from.y) = 1
  /\ ~Occupied(pieces, Last(moveHistory').to)

\* C19: when makeMove applies a pawn's diagonal step onto an empty square,
\* the piece removed is the opposing pawn on (to.x, from.y), the capturing
\* pawn ends on `to`, no other piece changes, and the record is flagged en
\* passant with that pawn as its captured piece.
C19_EnPassantRemovesPassedPawn ==
  [][ PawnDiagonalToEmptyApplied =>
        LET move == Last(moveHistory')
            victim == getPieceAt(pieces, Pos(move.to.x, move.from.y))
            rest == SelectSeq(pieces, LAMBDA p : p.position # victim.position)
        IN /\ victim.type = PAWN
           /\ victim.color = Opponent(currentPlayer)
           /\ move.isEnPassant
           /\ move.capturedPiece = victim
           /\ Len(pieces') = Len(pieces) - 1
           /\ pieces' = [k \in 1..Len(rest) |->
                           IF rest[k].position = move.from
                           THEN [rest[k] EXCEPT !.position = move.to,
                                                !.hasMoved = TRUE]
                           ELSE rest[k]] ]_vars

\* C19 witness: an en-passant capture has been applied (1.e4 a6 2.e5 d5
\* 3.exd6); the pawn that stood on d5 is gone.
C19_Witness ==
  /\ lastOp = "makeMove"
  /\ lastResult = "true"
  /\ Last(moveHistory).isEnPassant
  /\ Last(moveHistory).capturedPiece.type = PAWN
  /\ ~Occupied(pieces, Last(moveHistory).capturedPiece.position)
  /\ getPieceAt(pieces, Last(moveHistory).to).type = PAWN

\* The diagonal steps onto an empty square the pawns of the side to move have.
EnPassantAttempts ==
  { [from |-> pieces[i].position,
     to |-> Pos(pieces[i].position.x + d,
                pieces[i].position.y + (IF currentPlayer = WHITE THEN 1 ELSE -1))] :
      i \in {k \in 1..Len(pieces) :
               pieces[k].type = PAWN /\ pieces[k].color = currentPlayer},
      d \in {-1, 1} }

\* C20: makeMove accepts a pawn's diagonal step onto an empty square only if
\* the move applied immediately before was the double step, from its starting
\* rank, of the pawn standing on (to.x, from.y).
C20_EnPassantOnlyAfterDoubleStep ==
  Playing(status) =>
    \A a \in EnPassantAttempts :
      ( /\ ~Occupied(pieces, a.to)
        /\ makeMove(pieces, currentPlayer, moveHistory, status, a.from, a.to).result
             = "true" )
      => /\ moveHistory # << >>
         /\ Last(moveHistory).to = Pos(a.to.x, a.from.y)
         /\ Last(moveHistory).from.x = Last(moveHistory).to.x
         /\ Abs(Last(moveHistory).to.y - Last(moveHistory).from.y) = 2
         /\ getPieceAt(pieces, Pos(a.to.x, a.from.y)).type = PAWN

\* `history` holds n plies, and they are those of scenario A except for
\* white's second move, which is any move the game accepted: 1.a4 b6 2.(any)
\* b5 3.axb5.
ScenarioAPlayed(history, n) ==
  /\ Len(history) = n
  /\ \A i \in (1..n) \ {3} :
       /\ history[i].from = LineScenarioA[i].from
       /\ history[i].to = LineScenarioA[i].to

\* C21 (as stated): in scenario A the capture (0,3)->(1,4) is accepted, the
\* black pawn is gone afterwards, and the record is flagged en passant.
C21_ScenarioAEnPassant ==
  /\ ScenarioAPlayed(moveHistory, 4) =>
       makeMove(pieces, currentPlayer, moveHistory, status,
                Pos(0, 3), Pos(1, 4)).result = "true"
  /\ ScenarioAPlayed(moveHistory, 5) =>
       /\ getPieceAt(pieces, Pos(1, 4)).color = WHITE
       /\ Len(SelectSeq(pieces, LAMBDA p : p.type = PAWN /\ p.color = BLACK)) = 7
       /\ Last(moveHistory).isEnPassant

\* C21 (amended): in scenario A the black pawn stands on the destination
\* (1,4) itself, so the capture (0,3)->(1,4) is accepted as an ordinary
\* capture: the black pawn is gone afterwards, the white pawn stands on
\* (1,4), the record holds the black pawn that stood on (1,4) as captured
\* piece, and it is not flagged en passant.
C21_ScenarioAOrdinaryCapture ==
  /\ ScenarioAPlayed(moveHistory, 4) =>
       /\ getPieceAt(pieces, Pos(1, 4)).type = PAWN
       /\ getPieceAt(pieces, Pos(1, 4)).color = BLACK
       /\ makeMove(pieces, currentPlayer, moveHistory, status,
                   Pos(0, 3), Pos(1, 4)).result = "true"
  /\ ScenarioAPlayed(moveHistory, 5) =>
       /\ getPieceAt(pieces, Pos(1, 4)).type = PAWN
       /\ getPieceAt(pieces, Pos(1, 4)).color = WHITE
       /\ Len(SelectSeq(pieces, LAMBDA p : p.position = Pos(1, 4))) = 1
       /\ Len(SelectSeq(pieces, LAMBDA p : p.type = PAWN /\ p.color = BLACK)) = 7
       /\ Last(moveHistory).capturedPiece.type = PAWN
       /\ Last(moveHistory).capturedPiece.color = BLACK
       /\ Last(moveHistory).capturedPiece.position = Pos(1, 4)
       /\ ~Last(moveHistory).isEnPassant

\* C21 witness: scenario A has been played to its end and the capture was
\* the last call, which returned true.
C21_Witness ==
  /\ ScenarioAPlayed(moveHistory, 5)
  /\ lastOp = "makeMove"
  /\ lastResult = "true"

\* The step applies a pawn's move onto the farthest rank for its colour.
PawnToFarthestRankApplied ==
  /\ Applied
  /\ getPieceAt(pieces, Last(moveHistory').from).type = PAWN
  /\ Last(moveHistory').to.y = (IF currentPlayer = WHITE THEN 7 ELSE 0)

\* C22: after makeMove moves a pawn onto the farthest rank for its colour,
\* the piece on the destination square is a queen of that colour and the
\* record carries promotion kind queen.
C22_PromotionToQueen ==
  [][ PawnToFarthestRankApplied =>
        /\ getPieceAt(pieces', Last(moveHistory').to).type = QUEEN
        /\ getPieceAt(pieces', Last(moveHistory').to).color = currentPlayer
        /\ Last(moveHistory').promotion = QUEEN ]_vars

\* C23: when the king of the side to move is in check, isValidMove accepts
\* every geometrically valid move of that side after which the king is no
\* longer attacked (capture of the checking piece, interposition, or a step of
\* the king to a square that is not attacked).
C23_CheckResolvingMovesAccepted ==
  isInCheck(pieces, currentPlayer) =>
    \A i \in 1..Len(pieces) : \A to \in Squares :
      ( /\ pieces[i].color = currentPlayer
        /\ LegalByApplication(pieces, pieces[i].position, to, currentPlayer) )
      => isValidMove(pieces, pieces[i].position, to, currentPlayer) = "true"

\* C24: for every piece of the board and every destination, the validator
\* with the check-aware gate (Board.ts) and the validator with the single
\* unconditional gate (MoveValidator.ts) return the same verdict.
C24_GatesEquivalent ==
  \A i \in 1..Len(pieces) : \A to \in Squares :
    isValidMove(pieces, pieces[i].position, to, pieces[i].color)
      = isValidMoveSingleGate(pieces, pieces[i].position, to, pieces[i].color)

\* C25: while an oracle request is outstanding, a makeMove call by a caller
\* other than makeAIMove, for the colour the oracle is playing, returns false
\* and changes neither board, history, side to move nor status.
C25_HumanMoveRejectedWhileThinking ==
  [][ ( /\ aiThinking
        /\ pending # << >>
        /\ gameMode = HUMAN_VS_AI
        /\ currentPlayer = aiColor
        /\ lastOp' = "makeMove" )
      => /\ lastResult' = "false"
         /\ UNCHANGED << pieces, moveHistory, currentPlayer, status >> ]_vars

\* C26: at most one oracle request of the game is outstanding at any time,
\* and aiThinking is set as long as one is.
C26_OneOutstandingRequest ==
  /\ Len(pending) <= 1
  /\ pending # << >> => aiThinking

\* C26 witness: a request issued before the service was disposed is still
\* outstanding, and setGameMode has just switched back to the AI mode with the
\* AI to move: its makeAIMove call issued no second request.
C26_Witness ==
  /\ Len(pending) = 1
  /\ Head(pending).disposed
  /\ lastOp = "setGameMode"
  /\ gameMode = HUMAN_VS_AI
  /\ stockfishService
  /\ currentPlayer = aiColor
  /\ Playing(status)

\* C27: an oracle response is applied only as a move of the oracle's colour:
\* when it arrives while the game is not in the AI mode or the side to move
\* is not the AI colour, board, history, side to move and status stay as they
\* are.
C27_StaleResponseDiscarded ==
  [][ ( /\ lastOp' = "makeAIMove"
        /\ pending' # pending
        /\ ~(gameMode = HUMAN_VS_AI /\ currentPlayer = aiColor) )
      => UNCHANGED << pieces, moveHistory, currentPlayer, status >> ]_vars

\* C28: every makeAIMove that ends either has applied a legal move and
\* reports true, or reports false and has left board, history, side to move
\* and status as they were (request failed, timed out, or answered with a
\* malformed, out-of-range or illegal move).
C28_OracleFailureLeavesGame ==
  [][ (lastOp' = "makeAIMove" /\ pending' # pending)
      => \/ /\ lastResult' = "true"
            /\ Applied
            /\ LegalByApplication(pieces, Last(moveHistory').from,
                                  Last(moveHistory').to, currentPlayer)
         \/ /\ lastResult' = "false"
            /\ UNCHANGED << pieces, moveHistory, currentPlayer, status >> ]_vars

\* C29: every oracle request eventually settles, so that aiThinking
\* eventually becomes false again, also when the mode is changed or the
\* service is disposed while the request is in flight.
C29_RequestEventuallySettles == aiThinking ~> ~aiThinking

\* It is the AI colour's turn in the AI mode and the game is not over.
AITurn == gameMode = HUMAN_VS_AI /\ currentPlayer = aiColor /\ Playing(status)

\* A request is in flight at a service that has not been disposed.
RequestInFlight == \E i \in 1..Len(pending) : ~pending[i].disposed

\* C30: in the AI mode, whenever a step makes it the AI colour's turn with
\* status active or check, a request is in flight afterwards; and while a
\* request is in flight on the AI's turn, every legal move the oracle may
\* answer with is applied by makeMove and hands the turn to the other side.
C30_AIAnswersAutomatically ==
  /\ [][ (~AITurn /\ AITurn') => RequestInFlight' ]_vars
  /\ [](AITurn /\ RequestInFlight =>
          \A m \in InputsAI(Len(moveHistory)) :
            LegalByApplication(pieces, m.from, m.to, currentPlayer) =>
              LET r == makeMove(pieces, currentPlayer, moveHistory, status,
                                m.from, m.to)
              IN r.result = "true" /\ r.currentPlayer = Opponent(aiColor))

\* C31: in every step other than resetGame, a piece that stands on a square
\* where no piece of its kind and colour stood before (it has been relocated)
\* has its moved-flag set, and a piece that stays where it was keeps a
\* moved-flag that was set.
C31_MovedFlagMonotoneAndComplete ==
  [][ lastOp' # "resetGame" =>
        \A j \in 1..Len(pieces') :
          LET now == pieces'[j]
              before == getPieceAt(pieces, now.position)
          IN IF before.type = now.type /\ before.color = now.color
             THEN before.hasMoved => now.hasMoved
             ELSE now.hasMoved ]_vars

\* C32: a makeMove that returns true appends exactly one record, whose
\* squares are those of the piece it relocated, and leaves the earlier
\* records as they were; resetGame empties the history; every other step (a
\* makeMove that does not return true, a query) leaves the history unchanged.
C32_HistoryAppendOnly ==
  [][ IF lastOp' = "resetGame" THEN moveHistory' = << >>
      ELSE IF lastOp' \in {"makeMove", "makeAIMove"} /\ lastResult' = "true"
      THEN /\ Len(moveHistory') = Len(moveHistory) + 1
           /\ SubSeq(moveHistory', 1, Len(moveHistory)) = moveHistory
           /\ getPieceAt(pieces, Last(moveHistory').from).color = currentPlayer
           /\ getPieceAt(pieces', Last(moveHistory').to).color = currentPlayer
      ELSE moveHistory' = moveHistory ]_vars

\* The same pieces, stored in the opposite order (a board filled through
\* Board.setPieces with the array reversed).
StoredInReverse(ps) == [i \in 1..Len(ps) |-> ps[Len(ps) + 1 - i]]

\* C33: a board that holds the same pieces in another storage order, with
\* the same side to move, gives the same isValidMove verdict for every move
\* of the side to move.
C33_VerdictsIndependentOfStorageOrder ==
  \A i \in 1..Len(pieces) : \A to \in Squares :
    pieces[i].color = currentPlayer =>
      isValidMove(pieces, pieces[i].position, to, currentPlayer)
        = isValidMove(StoredInReverse(pieces), pieces[i].position, to,
                      currentPlayer)

\* ---------------------------------------------------------------------------
\* The position descriptor StockfishService builds for the oracle.  A string
\* is modelled as the sequence of its characters.

\* String.toUpperCase on the six piece letters.
toUpperCase(char) ==
  CASE char = "p" -> "P" [] char = "n" -> "N" [] char = "b" -> "B"
    [] char = "r" -> "R" [] char = "q" -> "Q" [] char = "k" -> "K"
    [] OTHER -> char

\* A letter that keeps its case whatever the colour of the piece.
pieceToFENCharLowerCase(piece) ==
  CASE piece.type = PAWN -> "p" [] piece.type = KNIGHT -> "n"
    [] piece.type = BISHOP -> "b" [] piece.type = ROOK -> "r"
    [] piece.type = QUEEN -> "q" [] piece.type = KING -> "k"
    [] OTHER -> ""

\* StockfishService.pieceToFENChar.
pieceToFENChar(piece) ==
  LET char == CASE piece.type = PAWN -> "p" [] piece.type = KNIGHT -> "n"
                [] piece.type = BISHOP -> "b" [] piece.type = ROOK -> "r"
                [] piece.type = QUEEN -> "q" [] piece.type = KING -> "k"
                [] OTHER -> ""
  IN IF piece.color = WHITE THEN toUpperCase(char) ELSE char

\* `fen += emptyCount`: the decimal text of a count between 1 and 8.
DecimalDigit(n) == <<"1", "2", "3", "4", "5", "6", "7", "8">>[n]

\* The inner loop of boardToFEN from file x on, with the text built so far
\* and the running emptyCount; after file 7 the pending count is flushed.
RECURSIVE fenRankFrom(_, _, _, _, _)
fenRankFrom(ps, y, x, fen, emptyCount) ==
  IF x >= BoardSize
  THEN IF emptyCount > 0 THEN Append(fen, DecimalDigit(emptyCount)) ELSE fen
  ELSE The({ fenRankFrom(ps, y, x + 1, next.fen, next.emptyCount) :
             next \in
               { LET piece == getPieceAt(ps, Pos(x, y))
                 IN IF piece.type # NOTYPE
                    THEN [fen |-> Append(IF emptyCount > 0
                                         THEN Append(fen, DecimalDigit(emptyCount))
                                         ELSE fen,
                                         pieceToFENChar(piece)),
                          emptyCount |-> 0]
                    ELSE [fen |-> fen, emptyCount |-> emptyCount + 1] } })

\* The outer loop of boardToFEN from rank y down to rank 0.
RECURSIVE fenRanksFrom(_, _, _)
fenRanksFrom(ps, y, fen) ==
  IF y < 0 THEN fen
  ELSE The({ fenRanksFrom(ps, y - 1,
                          IF y > 0 THEN Append(withRank, "/") ELSE withRank) :
             withRank \in { fenRankFrom(ps, y, 0, fen, 0) } })

\* StockfishService.boardToFEN.
boardToFEN(ps, player) ==
  fenRanksFrom(ps, BoardSize - 1, << >>)
    \o <<" ", IF player = WHITE THEN "w" ELSE "b">>
    \o <<" ", "K", "Q", "k", "q">>
    \o <<" ", "-">>
    \o <<" ", "0", " ", "1">>

\* Reading a descriptor back: the fields between the separators, and the
\* squares a rank field stands for ("." for an empty square).
IsDigit(c) == c \in {"1", "2", "3", "4", "5", "6", "7", "8"}

DigitValue(c) == CHOOSE n \in 1..8 : DecimalDigit(n) = c

FirstIndex(s, c) ==
  IF \E i \in 1..Len(s) : s[i] = c
  THEN CHOOSE i \in 1..Len(s) : s[i] = c /\ \A j \in 1..(i - 1) : s[j] # c
  ELSE Len(s) + 1

RECURSIVE SplitOn(_, _)
SplitOn(s, c) ==
  LET cut == FirstIndex(s, c)
  IN IF cut > Len(s) THEN << s >>
     ELSE << SubSeq(s, 1, cut - 1) >> \o SplitOn(SubSeq(s, cut + 1, Len(s)), c)

RECURSIVE ExpandField(_)
ExpandField(field) ==
  IF field = << >> THEN << >>
  ELSE (IF IsDigit(Head(field))
        THEN [i \in 1..DigitValue(Head(field)) |-> "."]
        ELSE << Head(field) >>) \o ExpandField(Tail(field))

SquareLetter(ps, pos) ==
  LET piece == getPieceAt(ps, pos)
      white == [pawn |-> "P", knight |-> "N", bishop |-> "B",
                rook |-> "R", queen |-> "Q", king |-> "K"]
      black == [pawn |-> "p", knight |-> "n", bishop |-> "b",
                rook |-> "r", queen |-> "q", king |-> "k"]
  IN IF piece.type = NOTYPE THEN "."
     ELSE IF piece.color = WHITE THEN white[piece.type] ELSE black[piece.type]

DescriptorWellFormed(ps, player) ==
  \E fen \in {boardToFEN(ps, player)} :
    \E space \in {FirstIndex(fen, " ")} :
      \E ranks \in {SplitOn(SubSeq(fen, 1, space - 1), "/")} :
        /\ Len(ranks) = BoardSize
        /\ \A r \in 1..BoardSize :
             /\ \E squares \in {ExpandField(ranks[r])} :
                  /\ Len(squares) = BoardSize
                  /\ \A x \in 0..(BoardSize - 1) :
                       squares[x + 1] = SquareLetter(ps, Pos(x, BoardSize - r))
             /\ \A i \in 1..(Len(ranks[r]) - 1) :
                  ~(IsDigit(ranks[r][i]) /\ IsDigit(ranks[r][i + 1]))
        /\ SubSeq(fen, space, space + 6)
             = <<" ", IF player = WHITE THEN "w" ELSE "b", " ", "K", "Q", "k", "q">>

\* C34: the descriptor built for the oracle lists ranks 7 down to 0 separated
\* by '/', each rank files 0..7 with one letter per piece (upper case for
\* white) and each maximal run of empty squares as one digit, so every rank
\* field expands to exactly 8 squares that match the board; the side to move
\* (w or b) and the constant castling field KQkq follow.
C34_DescriptorMatchesBoard == DescriptorWellFormed(pieces, currentPlayer)

\* A request is in flight for a position with a capture made, a run of
\* empty squares inside an occupied rank, and black to move.
C34_Witness ==
  /\ aiThinking
  /\ currentPlayer = BLACK
  /\ Len(pieces) < 32
  /\ \E y \in 0..(BoardSize - 1) : \E x \in 1..(BoardSize - 2) :
       /\ getPieceAt(pieces, Pos(x, y)).type = NOTYPE
       /\ getPieceAt(pieces, Pos(x - 1, y)).type # NOTYPE
       /\ getPieceAt(pieces, Pos(x + 1, y)).type # NOTYPE
  /\ DescriptorWellFormed(pieces, currentPlayer)

\* ---------------------------------------------------------------------------
\* Pawn geometry.

Forward(color) == IF color = WHITE THEN 1 ELSE -1

\* The diagonal steps of the pawn on `from` that end on an empty square.
DiagonalStepsOntoEmpty(ps, from) ==
  { to \in Squares :
      /\ Abs(to.x - from.x) = 1
      /\ to.y = from.y + Forward(getPieceAt(ps, from).color)
      /\ ~Occupied(ps, to) }

\* An opposing pawn with its moved-flag set stands beside the mover on the
\* file of `to`, on the rank a double step of its colour lands on.
PassedPawnBeside(ps, from, to) ==
  LET mover == getPieceAt(ps, from)
      beside == getPieceAt(ps, Pos(to.x, from.y))
  IN /\ beside.type = PAWN
     /\ beside.color # mover.color
     /\ beside.hasMoved
     /\ from.y = (IF beside.color = BLACK THEN 4 ELSE 3)

\* C35: a pawn's diagonal step onto an empty square is accepted by
\* isValidMove only if an opposing pawn with its moved-flag set stands on
\* (to.file, from.rank) and that rank is the double-step landing rank of that
\* pawn (4 for a black pawn, 3 for a white one); otherwise it is rejected.
C35_EnPassantGeometry ==
  \A i \in 1..Len(pieces) :
    pieces[i].type = PAWN =>
      \A to \in DiagonalStepsOntoEmpty(pieces, pieces[i].position) :
        \E verdict \in {isValidMove(pieces, pieces[i].position, to, pieces[i].color)} :
          /\ verdict = "true" => PassedPawnBeside(pieces, pieces[i].position, to)
          /\ ~PassedPawnBeside(pieces, pieces[i].position, to) => verdict = "false"

\* One diagonal step onto an empty square is accepted beside a pawn that has
\* just made its double step, and another is rejected beside an opposing pawn
\* that stands on a different rank.
C35_Witness ==
  /\ \E i \in 1..Len(pieces) :
       /\ pieces[i].type = PAWN
       /\ \E to \in DiagonalStepsOntoEmpty(pieces, pieces[i].position) :
            /\ PassedPawnBeside(pieces, pieces[i].position, to)
            /\ isValidMove(pieces, pieces[i].position, to, pieces[i].color) = "true"
  /\ \E i \in 1..Len(pieces) :
       /\ pieces[i].type = PAWN
       /\ \E to \in DiagonalStepsOntoEmpty(pieces, pieces[i].position) :
            /\ getPieceAt(pieces, Pos(to.x, pieces[i].position.y)).type = PAWN
            /\ getPieceAt(pieces, Pos(to.x, pieces[i].position.y)).color
                 # pieces[i].color
            /\ ~PassedPawnBeside(pieces, pieces[i].position, to)
            /\ isValidMove(pieces, pieces[i].position, to, pieces[i].color) = "false"

StartingRank(color) == IF color = WHITE THEN 1 ELSE 6

OneStep(pawn) == Pos(pawn.position.x, pawn.position.y + Forward(pawn.color))

TwoSteps(pawn) == Pos(pawn.position.x, pawn.position.y + 2 * Forward(pawn.color))

\* C36: a pawn's one-square forward step is geometrically valid iff the
\* destination is empty; its two-square forward step iff it stands on its
\* starting rank (1 for white, 6 for black) and the intermediate and the
\* destination square are empty; it never moves backwards or sideways and
\* never captures straight ahead.
C36_PawnForwardGeometry ==
  \A i \in 1..Len(pieces) :
    pieces[i].type = PAWN =>
      LET pawn == pieces[i]
      IN \A to \in Squares :
           /\ to = OneStep(pawn) =>
                (isValidPawnMove(pieces, pawn, to) <=> ~Occupied(pieces, to))
           /\ to = TwoSteps(pawn) =>
                (isValidPawnMove(pieces, pawn, to)
                   <=> /\ pawn.position.y = StartingRank(pawn.color)
                       /\ ~Occupied(pieces, OneStep(pawn))
                       /\ ~Occupied(pieces, to))
           /\ (to.y - pawn.position.y) * Forward(pawn.color) <= 0 =>
                /\ ~isValidPawnMove(pieces, pawn, to)
                /\ isValidMove(pieces, pawn.position, to, pawn.color) = "false"
           /\ to.x = pawn.position.x /\ Occupied(pieces, to) =>
                /\ ~isValidPawnMove(pieces, pawn, to)
                /\ isValidMove(pieces, pawn.position, to, pawn.color) = "false"

\* A pawn blocked one square ahead by an opposing piece, a pawn off its
\* starting rank with two empty squares ahead, and a pawn on its starting
\* rank whose double step is valid, in one position.
C36_Witness ==
  /\ \E i \in 1..Len(pieces) :
       /\ pieces[i].type = PAWN
       /\ getPieceAt(pieces, OneStep(pieces[i])).type # NOTYPE
       /\ getPieceAt(pieces, OneStep(pieces[i])).color # pieces[i].color
       /\ ~isValidPawnMove(pieces, pieces[i], OneStep(pieces[i]))
  /\ \E i \in 1..Len(pieces) :
       /\ pieces[i].type = PAWN
       /\ pieces[i].position.y # StartingRank(pieces[i].color)
       /\ TwoSteps(pieces[i]) \in Squares
       /\ ~Occupied(pieces, OneStep(pieces[i]))
       /\ ~Occupied(pieces, TwoSteps(pieces[i]))
       /\ ~isValidPawnMove(pieces, pieces[i], TwoSteps(pieces[i]))
  /\ \E i \in 1..Len(pieces) :
       /\ pieces[i].type = PAWN
       /\ pieces[i].position.y = StartingRank(pieces[i].color)
       /\ isValidPawnMove(pieces, pieces[i], TwoSteps(pieces[i]))

\* ---------------------------------------------------------------------------
\* Movement patterns of the pieces other than the pawn.

\* The squares strictly between two squares of one rank, file or diagonal.
Between(from, to) ==
  { sq \in Squares :
      /\ sq # from
      /\ sq # to
      /\ (sq.x - from.x) * (to.y - from.y) = (sq.y - from.y) * (to.x - from.x)
      /\ Min(from.x, to.x) <= sq.x /\ sq.x <= Max(from.x, to.x)
      /\ Min(from.y, to.y) <= sq.y /\ sq.y <= Max(from.y, to.y) }

OnDiagonal(from, to) == from # to /\ Abs(to.x - from.x) = Abs(to.y - from.y)

OnRankOrFile(from, to) == from # to /\ (to.x = from.x \/ to.y = from.y)

\* The destination pattern of a knight, bishop, rook or queen, and the
\* one-square pattern of a king.
Pattern(ps, piece, to) ==
  LET from == piece.position
      clear == \A sq \in Between(from, to) : ~Occupied(ps, sq)
  IN /\ getPieceAt(ps, to).color # piece.color
     /\ CASE piece.type = KNIGHT ->
               {Abs(to.x - from.x), Abs(to.y - from.y)} = {1, 2}
          [] piece.type = BISHOP -> OnDiagonal(from, to) /\ clear
          [] piece.type = ROOK -> OnRankOrFile(from, to) /\ clear
          [] piece.type = QUEEN ->
               (OnDiagonal(from, to) \/ OnRankOrFile(from, to)) /\ clear
          [] piece.type = KING ->
               from # to /\ Abs(to.x - from.x) <= 1 /\ Abs(to.y - from.y) <= 1
          [] OTHER -> FALSE

\* A step of the king over two files on its rank.
TwoFiles(piece, to) ==
  /\ piece.type = KING
  /\ Abs(to.x - piece.position.x) = 2
  /\ to.y = piece.position.y

\* The move leaves check out of the question: the mover's king is attacked
\* neither on the board of the call nor on the board the move produces.
CannotAffectCheck(ps, from, to, color) ==
  /\ ~isInCheck(ps, color)
  /\ ~isInCheck(movePiece(ps, from, to), color)

\* C37: for a knight, bishop, rook, queen or king whose move cannot affect
\* check, isValidMove holds exactly for the destinations of the kind's
\* pattern (sliders only over empty squares strictly between the ends, the
\* king one square, two files only as castling), never onto an own piece.
C37_PatternsExact ==
  \A i \in 1..Len(pieces) :
    pieces[i].type # PAWN =>
      \A to \in Squares :
        \E verdict \in {isValidMove(pieces, pieces[i].position, to, pieces[i].color)} :
          /\ (~Pattern(pieces, pieces[i], to) /\ ~TwoFiles(pieces[i], to))
               => verdict = "false"
          /\ (verdict = "true" /\ TwoFiles(pieces[i], to))
               => ~pieces[i].hasMoved
          /\ ( /\ Pattern(pieces, pieces[i], to)
               /\ CannotAffectCheck(pieces, pieces[i].position, to, pieces[i].color) )
               => verdict = "true"

\* ---------------------------------------------------------------------------
\* The check-safety simulation.

\* A bishop, rook or queen attacks `pos` in the position `sim`: it is aligned
\* with the square and every square strictly between them is empty in `sim`.
SliderAttacksIn(sim, piece, pos) ==
  /\ CASE piece.type = BISHOP -> OnDiagonal(piece.position, pos)
       [] piece.type = ROOK -> OnRankOrFile(piece.position, pos)
       [] piece.type = QUEEN ->
            OnDiagonal(piece.position, pos) \/ OnRankOrFile(piece.position, pos)
       [] OTHER -> FALSE
  /\ \A sq \in Between(piece.position, pos) : ~Occupied(sim, sq)

\* The candidate moves of the side to move that reach the simulation.
Simulated(ps, color) ==
  { m \in [from : {ps[i].position : i \in 1..Len(ps)}, to : Squares] :
      /\ PassesGeometry(ps, m.from, m.to, color)
      /\ ~SimThrows(ps, m.from, m.to) }

\* C38: in the check-safety simulation a bishop, rook or queen attacks the
\* king's square iff it is aligned with it and every square strictly between
\* them is empty in the simulated position; the occupancy of the live board
\* has no influence.
C38_SliderAttackOnSimulatedPosition ==
  \A m \in Simulated(pieces, currentPlayer) :
    \E sim \in {SimPieces(pieces, m.from, m.to)} :
      \E k \in {findKing(sim, currentPlayer)} :
        k # 0 =>
          \A j \in 1..Len(sim) :
            ( /\ sim[j].color = Opponent(currentPlayer)
              /\ sim[j].type \in {BISHOP, ROOK, QUEEN} )
            => ( canPieceAttackSquareWithPieces(pieces, sim, sim[j], sim[k].position)
                   <=> SliderAttacksIn(sim, sim[j], sim[k].position) )

\* The live position with the piece on `from` relocated to `to` and the piece
\* on `to` removed, as a set of pieces.
Relocated(ps, from, to) ==
  { ps[i] : i \in { j \in 1..Len(ps) : ps[j].position \notin {from, to} } }
    \cup { [getPieceAt(ps, from) EXCEPT !.position = to] }

\* C39: for every candidate move that reaches the check-safety gate, the
\* position the gate evaluates is the live position with exactly the piece
\* from `from` relocated to `to` and the piece on `to` (if any) removed,
\* whatever the order of the mover and the captured piece in the piece list.
C39_SimulatedPositionIsTheMove ==
  \A i \in 1..Len(pieces) : \A to \in Squares :
    PassesGeometry(pieces, pieces[i].position, to, pieces[i].color) =>
      /\ ~SimThrows(pieces, pieces[i].position, to)
      /\ \E sim \in {SimPieces(pieces, pieces[i].position, to)} :
           {sim[j] : j \in 1..Len(sim)} = Relocated(pieces, pieces[i].position, to)

\* ---------------------------------------------------------------------------
\* StockfishService (StockfishService.ts): the callbacks, the timers and the
\* worker's answers.  Call k sends position k; the worker answers the
\* searches it was sent in the order it received them.

\* resolve / reject of a promise: a settled promise stays as it is.
Settle(ps, k, state, answerTo, timerOf) ==
  IF ps[k].state = "pending"
  THEN [ps EXCEPT ![k] = [state |-> state, answerTo |-> answerTo,
                          timerOf |-> timerOf]]
  ELSE ps

\* The number of getBestMove calls made so far.
Calls == Cardinality({k \in Requests : promises[k].state # "none"})

\* makeAIMove awaits the promise of its call before another call is made.
NoCallOutstanding == \A k \in Requests : promises[k].state # "pending"

\* handleStockfishMessage for a message that includes "readyok".
ReadyOk ==
  /\ ~isReady
  /\ isReady' = TRUE
  /\ UNCHANGED << moveResolve, moveReject, worker, promises, timers >>
  /\ UNCHANGED gameVars

\* getBestMove: it throws (the promise of the async call is rejected) when
\* the service is not ready; otherwise it stores the callbacks of this call,
\* arms the timer and posts "position fen ..." and "go depth ...".
GetBestMove ==
  /\ Calls < MaxRequests
  /\ NoCallOutstanding
  /\ LET k == Calls + 1 IN
     IF ~isReady
     THEN /\ promises' = [promises EXCEPT ![k] =
                            [state |-> "rejected", answerTo |-> 0, timerOf |-> 0]]
          /\ UNCHANGED << isReady, moveResolve, moveReject, worker, timers >>
     ELSE /\ promises' = [promises EXCEPT ![k] =
                            [state |-> "pending", answerTo |-> 0, timerOf |-> 0]]
          /\ moveResolve' = k
          /\ moveReject' = k
          /\ timers' = timers \cup {k}
          /\ worker' = Append(worker, k)
          /\ UNCHANGED isReady
  /\ UNCHANGED gameVars

\* handleStockfishMessage for "bestmove <move>", the worker's answer to the
\* oldest search it was sent: the stored moveResolve is called (it clears the
\* timer of its own call), then both callbacks are set to null.
BestMove ==
  /\ worker # << >>
  /\ worker' = Tail(worker)
  /\ IF moveResolve # 0
     THEN /\ promises' = Settle(promises, moveResolve, "resolved", Head(worker), 0)
          /\ timers' = timers \ {moveResolve}
          /\ moveResolve' = 0
          /\ moveReject' = 0
     ELSE IF moveReject # 0
     THEN /\ promises' = Settle(promises, moveReject, "rejected", 0, 0)
          /\ timers' = timers \ {moveReject}
          /\ moveResolve' = 0
          /\ moveReject' = 0
     ELSE UNCHANGED << promises, timers, moveResolve, moveReject >>
  /\ UNCHANGED isReady
  /\ UNCHANGED gameVars

\* handleStockfishMessage for "bestmove (none)".
BestMoveNone ==
  /\ worker # << >>
  /\ worker' = Tail(worker)
  /\ IF moveReject # 0
     THEN /\ promises' = Settle(promises, moveReject, "rejected", 0, 0)
          /\ timers' = timers \ {moveReject}
          /\ moveResolve' = 0
          /\ moveReject' = 0
     ELSE UNCHANGED << promises, timers, moveResolve, moveReject >>
  /\ UNCHANGED isReady
  /\ UNCHANGED gameVars

\* handleStockfishMessage for a message that includes "error" or
\* "Unknown command" while a callback is stored.
EngineError ==
  /\ moveReject # 0
  /\ promises' = Settle(promises, moveReject, "rejected", 0, 0)
  /\ timers' = timers \ {moveReject}
  /\ moveResolve' = 0
  /\ moveReject' = 0
  /\ UNCHANGED << isReady, worker >>
  /\ UNCHANGED gameVars

\* The setTimeout callback of call k, ten seconds after the call.
Timeout(k) ==
  /\ k \in timers
  /\ IF moveReject # 0
     THEN /\ promises' = Settle(promises, moveReject, "rejected", 0, k)
          /\ timers' = (timers \ {k}) \ {moveReject}
          /\ moveResolve' = 0
          /\ moveReject' = 0
     ELSE /\ timers' = timers \ {k}
          /\ UNCHANGED << promises, moveResolve, moveReject >>
  /\ UNCHANGED << isReady, worker >>
  /\ UNCHANGED gameVars

NextService ==
  \/ ReadyOk
  \/ GetBestMove
  \/ BestMove
  \/ BestMoveNone
  \/ EngineError
  \/ \E k \in Requests : Timeout(k)

SpecService == Init /\ [][NextService]_vars

\* C40: each getBestMove promise resolves only with the worker's answer to
\* the position of that same call (never with a "bestmove" produced for an
\* earlier call that timed out or failed), and the timer of an earlier call
\* never rejects a later call.
C40_AnswerBelongsToItsRequest ==
  \A k \in Requests :
    /\ promises[k].state = "resolved" => promises[k].answerTo = k
    /\ promises[k].timerOf # 0 => promises[k].timerOf = k

====
